---- MODULE Spec2Model ----
(***************************************************************************)
(* Radware CAP Open Service Broker: the provisioning state machine of      *)
(* src/src/routes/osb.js over the in-memory store of                       *)
(* src/src/store/memoryStore.js and the upstream client (RadwareApi).      *)
(*                                                                         *)
(* One step of the model is one run-to-completion segment of the Node.js   *)
(* event loop: the code of a handler or of a detached job between two      *)
(* awaits of upstream I/O.                                                 *)
(***************************************************************************)
EXTENDS Integers, Sequences, FiniteSets, Bags, TLC

\* ---------------------------------------------------------------- bounds
MaxInFlight == 2   \* requests and detached jobs in flight at the same time
MaxTime == 1       \* Date.now() ranges over 0..MaxTime
MaxAccounts == 2   \* accounts the backend is willing to create in one run
MaxUsers == 1      \* contact users the backend is willing to create under one account
MaxRetries == 3    \* RADWARE_RETRIES ranges over 0..MaxRetries
MaxStatus == 504   \* the backend rejects with HTTP status 400..MaxStatus

\* ---------------------------------------------------------------- inputs
InstanceIds == {"i1"}
Missing == ""                      \* an absent (falsy) request field
ServiceIds == {"svc"}
PlanIds == {"standard", "enterprise"}
RawFailures == {404}               \* upstream failure: 0 = no response, else HTTP status
BindingIds == {"b1"}
Emails == {"ops@example.com"}

VARIABLES
  enableAsync,        \* config.osb.enableAsync
  now,                \* Date.now()
  instances,          \* MemoryStore.instances: instanceId -> instance
  bindings,           \* MemoryStore.bindings: bindingId -> binding
  operations,         \* MemoryStore.operations: operationId -> operation
  instanceOps,        \* MemoryStore.instanceOps: instanceId -> set of operationId
  pendingOperations,  \* MemoryStore.pendingOperations: set of instanceId
  upstream,           \* the backend: sequence of the accounts it created
  inflight,           \* bag of handlers and detached jobs suspended at an await
  resp                \* the HTTP response sent by the last step, if any

vars == <<enableAsync, now, instances, bindings, operations, instanceOps,
          pendingOperations, upstream, inflight, resp>>

\* ------------------------------------------------------------ values
Undefined == [kind |-> "undefined", n |-> 0]
AccountId(n) == [kind |-> "account", n |-> n]
UpServiceId(n) == [kind |-> "service", n |-> n]
\* the id of the k-th contact user the backend created under account a
UserId(a, k) == [kind |-> "user", n |-> k, acct |-> a]

NoOperation == [type |-> "none", inst |-> "", ts |-> 0]
\* `${type}-${instanceId}-${Date.now()}`
OperationId(type, instanceId, ts) == [type |-> type, inst |-> instanceId, ts |-> ts]

ParamKeys == {"k1", "k2"}
EmptyParams == [k \in ParamKeys |-> Missing]
\* { ...a, ...b }
Spread(a, b) == [k \in ParamKeys |-> IF b[k] # Missing THEN b[k] ELSE a[k]]

\* getInstance(...) || null
NoInstance ==
  [serviceId |-> Missing, planId |-> Missing, context |-> Missing,
   parameters |-> EmptyParams, accountId |-> Undefined, radwareServiceId |-> Undefined,
   updatedAt |-> 0]

\* getBinding(...) || null
NoCredentials == [userId |-> Undefined, email |-> Missing, accountId |-> Undefined]
NoBinding ==
  [instanceId |-> Missing, serviceId |-> Missing, planId |-> Missing,
   credentials |-> NoCredentials, radwareUserId |-> Undefined]

\* ------------------------------------------------------------ the store
Store ==
  [instances |-> instances, bindings |-> bindings, operations |-> operations,
   instanceOps |-> instanceOps, pendingOperations |-> pendingOperations]

SetStore(s) ==
  /\ instances' = s.instances
  /\ bindings' = s.bindings
  /\ operations' = s.operations
  /\ instanceOps' = s.instanceOps
  /\ pendingOperations' = s.pendingOperations

storeVars == <<instances, bindings, operations, instanceOps, pendingOperations>>

MapSet(m, k, v) == [x \in (DOMAIN m) \cup {k} |-> IF x = k THEN v ELSE m[x]]
MapDelete(m, k) == [x \in (DOMAIN m) \ {k} |-> m[x]]

IsInProgress(op) == op.state = "in progress"
IsTerminal(op) == op.state = "succeeded" \/ op.state = "failed"

\* a delete that prunes every operation of the instance, finished or not
deleteInstanceWithOperations(s, instanceId) ==
  LET operationIds ==
        IF instanceId \in DOMAIN s.instanceOps THEN s.instanceOps[instanceId] ELSE {}
  IN  [s EXCEPT
         !.instances = MapDelete(s.instances, instanceId),
         !.bindings =
           [b \in {x \in DOMAIN s.bindings : s.bindings[x].instanceId # instanceId}
              |-> s.bindings[b]],
         !.operations = [id \in (DOMAIN s.operations) \ operationIds |-> s.operations[id]],
         !.instanceOps = MapDelete(s.instanceOps, instanceId),
         !.pendingOperations = @ \ {instanceId}]

\* a delete that leaves the operations alone and lowers the pending flag
deleteInstanceLoweringFlag(s, instanceId) ==
  IF instanceId \notin DOMAIN s.instances THEN s
  ELSE [s EXCEPT
          !.instances = MapDelete(s.instances, instanceId),
          !.bindings =
            [b \in {x \in DOMAIN s.bindings : s.bindings[x].instanceId # instanceId}
               |-> s.bindings[b]],
          !.pendingOperations = @ \ {instanceId}]

\* a lookup that finds nothing
getInstanceMisses(s, instanceId) == NoInstance

getInstance(s, instanceId) ==
  IF instanceId \in DOMAIN s.instances THEN s.instances[instanceId] ELSE NoInstance

createInstanceThrows(s, instanceId) == instanceId \in DOMAIN s.instances

createInstance(s, instanceId, instanceData) ==
  [s EXCEPT !.instances =
     MapSet(s.instances, instanceId, [instanceData EXCEPT !.updatedAt = now])]

listOperationsByInstance(s, instanceId) ==
  IF instanceId \in DOMAIN s.instanceOps
    THEN {id \in s.instanceOps[instanceId] : id \in DOMAIN s.operations}
    ELSE {}

\* a delete that leaves the bindings of the instance behind
deleteInstanceNoCascade(s, instanceId) ==
  [s EXCEPT !.instances = MapDelete(s.instances, instanceId)]

deleteInstance(s, instanceId) ==
  IF instanceId \notin DOMAIN s.instances THEN s
  ELSE
    LET operationIds ==
          IF instanceId \in DOMAIN s.instanceOps THEN s.instanceOps[instanceId] ELSE {}
        toDelete ==
          {opId \in operationIds :
             opId \in DOMAIN s.operations /\ IsTerminal(s.operations[opId])}
        ops1 == [id \in (DOMAIN s.operations) \ toDelete |-> s.operations[id]]
        iops1 ==
          IF instanceId \notin DOMAIN s.instanceOps THEN s.instanceOps
          ELSE IF operationIds \ toDelete = {} THEN MapDelete(s.instanceOps, instanceId)
          ELSE MapSet(s.instanceOps, instanceId, operationIds \ toDelete)
        s1 == [s EXCEPT
                 !.instances = MapDelete(s.instances, instanceId),
                 !.bindings =
                   [b \in {x \in DOMAIN s.bindings : s.bindings[x].instanceId # instanceId}
                      |-> s.bindings[b]],
                 !.operations = ops1,
                 !.instanceOps = iops1]
        hasInProgress ==
          \E id \in listOperationsByInstance(s1, instanceId) : IsInProgress(s1.operations[id])
    IN  IF hasInProgress THEN s1
        ELSE [s1 EXCEPT !.pendingOperations = @ \ {instanceId}]

\* a registration that forgets to raise the instance's pending flag
setOperationUnflagged(s, instanceId, operationId, operationData) ==
  LET op == [type |-> operationData.type, state |-> operationData.state,
             description |-> operationData.description, instanceId |-> instanceId]
  IN  [s EXCEPT
         !.operations = MapSet(s.operations, operationId, op),
         !.instanceOps =
           MapSet(s.instanceOps, instanceId,
                  (IF instanceId \in DOMAIN s.instanceOps
                     THEN s.instanceOps[instanceId] ELSE {}) \cup {operationId})]

setOperation(s, instanceId, operationId, operationData) ==
  LET op == [type |-> operationData.type, state |-> operationData.state,
             description |-> operationData.description, instanceId |-> instanceId]
  IN  [s EXCEPT
         !.operations = MapSet(s.operations, operationId, op),
         !.instanceOps =
           MapSet(s.instanceOps, instanceId,
                  (IF instanceId \in DOMAIN s.instanceOps
                     THEN s.instanceOps[instanceId] ELSE {}) \cup {operationId}),
         !.pendingOperations =
           IF IsInProgress(op) THEN @ \cup {instanceId} ELSE @]

updateInstanceThrows(s, instanceId) == instanceId \notin DOMAIN s.instances

updateInstance(s, instanceId, updates) ==
  [s EXCEPT !.instances =
     MapSet(s.instances, instanceId,
            [s.instances[instanceId] EXCEPT
               !.planId = updates.planId,
               !.context = updates.context,
               !.parameters = updates.parameters,
               !.updatedAt = now])]

\* an update that finds no operation to update
updateOperationAlwaysThrows(s, operationId) == TRUE

updateOperationThrows(s, operationId) == operationId \notin DOMAIN s.operations

updateOperation(s, operationId, state, description) ==
  LET operation == [s.operations[operationId] EXCEPT
                      !.state = state, !.description = description]
      s1 == [s EXCEPT !.operations = MapSet(s.operations, operationId, operation)]
      instId == operation.instanceId
      hasInProgress ==
        /\ instId \in DOMAIN s1.instanceOps
        /\ \E id \in s1.instanceOps[instId] :
             id \in DOMAIN s1.operations /\ IsInProgress(s1.operations[id])
  IN  IF (state = "succeeded" \/ state = "failed") /\ ~hasInProgress
        THEN [s1 EXCEPT !.pendingOperations = @ \ {instId}]
        ELSE s1

\* a delete that leaves the pending flag as it is
deleteOperationKeepingFlag(s, operationId) ==
  IF operationId \notin DOMAIN s.operations THEN s
  ELSE
    LET instId == s.operations[operationId].instanceId
        iops1 ==
          IF instId \notin DOMAIN s.instanceOps THEN s.instanceOps
          ELSE IF s.instanceOps[instId] \ {operationId} = {}
            THEN MapDelete(s.instanceOps, instId)
          ELSE MapSet(s.instanceOps, instId, s.instanceOps[instId] \ {operationId})
    IN  [s EXCEPT !.instanceOps = iops1,
                  !.operations = MapDelete(s.operations, operationId)]

deleteOperation(s, operationId) ==
  IF operationId \notin DOMAIN s.operations THEN s
  ELSE
    LET instId == s.operations[operationId].instanceId
        iops1 ==
          IF instId \notin DOMAIN s.instanceOps THEN s.instanceOps
          ELSE IF s.instanceOps[instId] \ {operationId} = {}
            THEN MapDelete(s.instanceOps, instId)
          ELSE MapSet(s.instanceOps, instId, s.instanceOps[instId] \ {operationId})
        s1 == [s EXCEPT !.instanceOps = iops1,
                        !.operations = MapDelete(s.operations, operationId)]
        anyInProgress ==
          \E id \in listOperationsByInstance(s1, instId) : IsInProgress(s1.operations[id])
    IN  IF anyInProgress THEN s1
        ELSE [s1 EXCEPT !.pendingOperations = @ \ {instId}]

clearOperationsForInstance(s, instanceId) ==
  LET ids == IF instanceId \in DOMAIN s.instanceOps THEN s.instanceOps[instanceId] ELSE {}
  IN  [s EXCEPT
         !.operations = [id \in (DOMAIN s.operations) \ ids |-> s.operations[id]],
         !.instanceOps = MapDelete(s.instanceOps, instanceId),
         !.pendingOperations = @ \ {instanceId}]

\* a lookup that finds no binding
getBindingMisses(s, bindingId) == NoBinding

getBinding(s, bindingId) ==
  IF bindingId \in DOMAIN s.bindings THEN s.bindings[bindingId] ELSE NoBinding

\* a createBinding that checks the binding id only
createBindingThrowsOnDuplicate(s, instanceId, bindingId) ==
  bindingId \in DOMAIN s.bindings

createBindingThrows(s, instanceId, bindingId) ==
  bindingId \in DOMAIN s.bindings \/ instanceId \notin DOMAIN s.instances

\* the message of the Error createBinding throws
createBindingMessage(s, instanceId, bindingId) ==
  IF bindingId \in DOMAIN s.bindings THEN "Binding already exists"
  ELSE "Instance not found for binding"

createBinding(s, instanceId, bindingId, bindingData) ==
  [s EXCEPT !.bindings =
     MapSet(s.bindings, bindingId, [bindingData EXCEPT !.instanceId = instanceId])]

deleteBinding(s, bindingId) ==
  [s EXCEPT !.bindings = MapDelete(s.bindings, bindingId)]

\* getOperation(...) || null
NoOperationData == [type |-> "none", state |-> "", description |-> "", instanceId |-> ""]

\* a lookup that finds no operation
getOperationMisses(s, operationId) == NoOperationData

getOperation(s, operationId) ==
  IF operationId \in DOMAIN s.operations THEN s.operations[operationId]
  ELSE NoOperationData

\* a gate that is always open
hasPendingOperationNever(s, instanceId) == FALSE

hasPendingOperation(s, instanceId) == instanceId \in s.pendingOperations

\* ------------------------------------------------------- upstream client
\* a mapping that passes every upstream status through
mapErrorPassthrough(raw) ==
  [status |-> IF raw = 0 THEN 502 ELSE raw, message |-> "",
   description |-> "Radware backend service error"]

\* RadwareApi.mapError: raw outcome (0 = no response) -> thrown error
mapError(raw) ==
  CASE raw = 0   -> [status |-> 502, message |-> "",
                     description |-> "Unable to connect to Radware backend service"]
    [] raw = 400 -> [status |-> 400, message |-> "",
                     description |-> "Invalid request to Radware backend"]
    [] raw = 401 -> [status |-> 502, message |-> "",
                     description |-> "Authentication failed with Radware backend"]
    [] raw = 403 -> [status |-> 502, message |-> "",
                     description |-> "Access denied by Radware backend"]
    [] raw = 404 -> [status |-> 410, message |-> "",
                     description |-> "Resource not found in Radware backend"]
    [] raw = 409 -> [status |-> 409, message |-> "",
                     description |-> "Conflict in Radware backend"]
    [] raw = 422 -> [status |-> 422, message |-> "",
                     description |-> "Invalid parameters for Radware backend"]
    [] OTHER     -> [status |-> 502, message |-> "",
                     description |-> "Radware backend service error"]

\* new Error(message): no status, no description
ThrownError(message) == [status |-> 0, description |-> "", message |-> message]

\* 500, whatever the error
ErrorStatusInternal(error) == 500

\* error.status || 500
ErrorStatus(error) == IF error.status # 0 THEN error.status ELSE 500
\* error.message alone
ErrorMessageOnly(error) == error.message

\* error.description || error.message
ErrorDescription(error) ==
  IF error.description # "" THEN error.description ELSE error.message

\* --------------------------------------------------------------- flows
\* A handler or detached job suspended at an await; arg is the upstream id the awaited
\* call was given, where the route computes one.
Flow(verb, instanceId, mode, pc, service_id, plan_id, context, parameters, op, snap, acct) ==
  [verb |-> verb, inst |-> instanceId, mode |-> mode, pc |-> pc, sid |-> service_id,
   pid |-> plan_id, ctx |-> context, params |-> parameters, op |-> op, snap |-> snap,
   acct |-> acct, bid |-> Missing, email |-> Missing, arg |-> Undefined]

\* A bind or unbind handler suspended at its await.
BindingFlow(verb, instanceId, bindingId, pc, service_id, plan_id, email, snap, arg) ==
  [Flow(verb, instanceId, "sync", pc, service_id, plan_id, Missing, EmptyParams,
        NoOperation, snap, 0)
     EXCEPT !.bid = bindingId, !.email = email, !.arg = arg]

Flows == BagToSet(inflight)
Add(f) == inflight (+) SetToBag({f})
Remove(f) == inflight (-) SetToBag({f})
Replace(f, g) == (inflight (-) SetToBag({f})) (+) SetToBag({g})
HasRoom == BagCardinality(inflight) < MaxInFlight

\* ----------------------------------------------------------- responses
NoResp ==
  [verb |-> "none", inst |-> "", status |-> 0, dashboard_url |-> "", operation |-> NoOperation,
   error |-> "", description |-> "", credentials |-> NoCredentials, state |-> ""]

DashboardUrl(instanceId) == "dashboardBase/" \o instanceId

Response(verb, instanceId, status, dashboard_url, operation, error, description) ==
  [verb |-> verb, inst |-> instanceId, status |-> status, dashboard_url |-> dashboard_url,
   operation |-> operation, error |-> error, description |-> description,
   credentials |-> NoCredentials, state |-> ""]

\* res.status(status).json({ credentials })
RespondCredentials(verb, instanceId, status, credentials) ==
  [Response(verb, instanceId, status, "", NoOperation, "", "")
     EXCEPT !.credentials = credentials]

\* res.status(status).json({ description })
Describe(verb, instanceId, status, description) ==
  Response(verb, instanceId, status, "", NoOperation, "", description)

\* the catch block of a route: res.status(error.status || 500).json({description})
RespondError(verb, instanceId, error) ==
  Describe(verb, instanceId, ErrorStatus(error), ErrorDescription(error))

\* a step that answers no request
Silent == resp' = NoResp

\* ------------------------------------------- the retrying request executor
\* the outcomes of a rejected this.client(requestConfig): 0 = no response
RawOutcomes == {0} \cup (400..MaxStatus)

\* this.retries as the constructor sets it: the class built by newInstance() takes
\* config.radware.retries || 3, the exported singleton config.radware.retries
ConstructorRetries(variant, configured) ==
  IF variant = "class" THEN (IF configured # 0 THEN configured ELSE 3) ELSE configured

isRetryableError(raw) == raw = 0 \/ raw >= 500 \/ raw = 408 \/ raw = 429

\* Math.min(1000 * Math.pow(2, retryCount), 10000)
Delay(retryCount) ==
  IF 1000 * (2 ^ retryCount) < 10000 THEN 1000 * (2 ^ retryCount) ELSE 10000

\* one makeRequest call: its client's configuration, the retryCount of the current
\* attempt, where it stands, the last rejection and what it threw
Call(variant, configured, retryCount, pc, raw, delay, error) ==
  [verb |-> "makeRequest", variant |-> variant, configured |-> configured,
   retries |-> ConstructorRetries(variant, configured), retryCount |-> retryCount,
   pc |-> pc, raw |-> raw, delay |-> delay, error |-> error]

\* makeRequest(requestConfig) is called on a client built from the configuration
CallInit ==
  /\ enableAsync = FALSE
  /\ now = 0
  /\ instances = <<>>
  /\ bindings = <<>>
  /\ operations = <<>>
  /\ instanceOps = <<>>
  /\ pendingOperations = {}
  /\ upstream = <<>>
  /\ resp = NoResp
  /\ \E variant \in {"class", "singleton"}, configured \in 0..MaxRetries :
       inflight = SetToBag({Call(variant, configured, 0, "client", 0, 0,
                             [status |-> 0, message |-> "", description |-> ""])})

\* await this.client(requestConfig) resolves: makeRequest returns response.data
ClientResolves(c) ==
  /\ c.verb = "makeRequest" /\ c.pc = "client"
  /\ inflight' = Replace(c, [c EXCEPT !.pc = "returned"])
  /\ UNCHANGED <<enableAsync, now, storeVars, upstream, resp>>

\* await this.client(requestConfig) rejects: the catch block sleeps for a retry or throws
ClientRejects(c, raw) ==
  /\ c.verb = "makeRequest" /\ c.pc = "client"
  /\ LET isRetryable == isRetryableError(raw)
         shouldRetry == c.retryCount < c.retries /\ isRetryable
     IN  IF shouldRetry
           THEN inflight' = Replace(c, [c EXCEPT !.pc = "sleep", !.raw = raw,
                                                 !.delay = Delay(c.retryCount)])
           ELSE inflight' = Replace(c, [c EXCEPT !.pc = "thrown", !.raw = raw,
                                                 !.error = mapError(raw)])
  /\ UNCHANGED <<enableAsync, now, storeVars, upstream, resp>>

\* await this.sleep(delay) ends: return this.makeRequest(requestConfig, retryCount + 1)
SleepEnds(c) ==
  /\ c.verb = "makeRequest" /\ c.pc = "sleep"
  /\ inflight' = Replace(c, [c EXCEPT !.pc = "client", !.retryCount = @ + 1])
  /\ UNCHANGED <<enableAsync, now, storeVars, upstream, resp>>

CallNext ==
  \/ \E c \in Flows : ClientResolves(c)
  \/ \E c \in Flows, raw \in RawOutcomes : ClientRejects(c, raw)
  \/ \E c \in Flows : SleepEnds(c)

CallSpec == CallInit /\ [][CallNext]_vars

\* ---------------------------------------------------------------- Init
Init ==
  /\ enableAsync \in BOOLEAN
  /\ now = 0
  /\ instances = <<>>
  /\ bindings = <<>>
  /\ operations = <<>>
  /\ instanceOps = <<>>
  /\ pendingOperations = {}
  /\ upstream = <<>>
  /\ inflight = EmptyBag
  /\ resp = NoResp

\* time passes
Tick ==
  /\ now < MaxTime
  /\ now' = now + 1
  /\ Silent
  /\ UNCHANGED <<enableAsync, storeVars, upstream, inflight>>

\* a handler answers without touching store, backend or flows
Answer(r) ==
  /\ resp' = r
  /\ UNCHANGED <<enableAsync, now, storeVars, upstream, inflight>>

\* ---------------------------------------------------- header validation
\* the values of the X-Broker-API-Version header; Missing = header absent
ApiVersions == {Missing, "2.11", "2.12", "2.13"}

\* a list that also lets 2.11 through
AcceptedVersionsWithOlder == {"2.11", "2.12", "2.13"}

\* ['2.12', '2.13']
AcceptedVersions == {"2.12", "2.13"}

\* router.use(validateOSBHeaders): next is the route the request is for, verb and
\* instanceId name the request in the answer recorded
validateOSBHeaders(apiVersion, verb, instanceId, next) ==
  IF apiVersion = Missing THEN
    Answer(Describe(verb, instanceId, 412, "X-Broker-API-Version header is required"))
  ELSE IF apiVersion \notin AcceptedVersions THEN
    Answer(Describe(verb, instanceId, 412, "Requires X-Broker-API-Version: 2.12 or 2.13"))
  ELSE next

\* GET /v2/catalog
CatalogRequest == Answer(Describe("catalog", "", 200, ""))

\* ------------------------------------------------------ branch conditions
NotFoundStatus == 404   \* PATCH of an unknown instance
GoneStatus == 410       \* DELETE of an unknown instance

\* !service_id || !plan_id
MissingIds(service_id, plan_id) == service_id = Missing \/ plan_id = Missing

\* existingInstance.serviceId === service_id && existingInstance.planId === plan_id
SameAttributes(instance, service_id, plan_id) ==
  instance.serviceId = service_id /\ instance.planId = plan_id

\* && in place of ||
MismatchedBoth(instance, service_id, plan_id) ==
  instance.serviceId # service_id /\ instance.planId # plan_id

\* instance.serviceId !== service_id || instance.planId !== plan_id
Mismatched(instance, service_id, plan_id) ==
  instance.serviceId # service_id \/ instance.planId # plan_id

\* config.osb.enableAsync && acceptsIncomplete
AsyncAccepted(acceptsIncomplete) == enableAsync /\ acceptsIncomplete

\* !acceptsIncomplete, whatever the configuration
AsyncRequiredAlways(acceptsIncomplete) == ~acceptsIncomplete

\* config.osb.enableAsync && !acceptsIncomplete
AsyncRequired(acceptsIncomplete) == enableAsync /\ ~acceptsIncomplete

\* a record that drops the ids the backend returned
InstanceDataWithoutIds(f) ==
  [serviceId |-> f.sid, planId |-> f.pid, context |-> f.ctx, parameters |-> f.params,
   accountId |-> Undefined, radwareServiceId |-> Undefined, updatedAt |-> 0]

\* the instance record both provisioning paths hand to createInstance
InstanceData(f) ==
  [serviceId |-> f.sid, planId |-> f.pid, context |-> f.ctx, parameters |-> f.params,
   accountId |-> AccountId(f.acct), radwareServiceId |-> UpServiceId(f.acct),
   updatedAt |-> 0]

\* PATCH: the fields merged into the instance record
Updates(instance, plan_id, context, parameters) ==
  [planId |-> IF plan_id # Missing THEN plan_id ELSE instance.planId,
   context |-> IF context # Missing THEN context ELSE instance.context,
   parameters |-> Spread(instance.parameters, parameters)]

\* ----------------------------------------------------------- provision
\* PUT /v2/service_instances/:instance_id, up to its first await
ProvisionRequest(instanceId, service_id, plan_id, acceptsIncomplete, context, parameters) ==
  /\ LET existingInstance == getInstance(Store, instanceId)
         operationId == OperationId("provision", instanceId, now)
     IN
     IF MissingIds(service_id, plan_id) THEN
       Answer(Describe("provision", instanceId, 400, "service_id and plan_id are required"))
     ELSE IF existingInstance # NoInstance THEN
       IF SameAttributes(existingInstance, service_id, plan_id)
         THEN Answer(Response("provision", instanceId, 200, DashboardUrl(instanceId),
                               NoOperation, "", ""))
         ELSE Answer(Describe("provision", instanceId, 409,
                              "Instance already exists with different attributes"))
     ELSE IF hasPendingOperation(Store, instanceId) THEN
       Answer(Describe("provision", instanceId, 422,
                       "Another operation for this service instance is in progress"))
     ELSE IF AsyncAccepted(acceptsIncomplete) THEN
       /\ HasRoom
       /\ SetStore(setOperation(Store, instanceId, operationId,
                                [type |-> "provision", state |-> "in progress",
                                 description |-> "Provisioning service instance"]))
       /\ inflight' = Add(Flow("provision", instanceId, "async", "scheduled", service_id,
                               plan_id, context, parameters, operationId, NoInstance, 0))
       /\ resp' = Response("provision", instanceId, 202, "", operationId, "", "")
       /\ UNCHANGED <<enableAsync, now, upstream>>
     ELSE IF AsyncRequired(acceptsIncomplete) THEN
       Answer(Response("provision", instanceId, 422, "", NoOperation, "AsyncRequired",
         "This service plan requires client support for asynchronous service operations."))
     ELSE
       /\ HasRoom
       /\ inflight' = Add(Flow("provision", instanceId, "sync", "createAccount", service_id,
                               plan_id, context, parameters, NoOperation, NoInstance, 0))
       /\ Silent /\ UNCHANGED <<enableAsync, now, storeVars, upstream>>

\* a job whose start answers the request that scheduled it
JobStartAnswering(f) ==
  /\ f.pc = "scheduled"
  /\ inflight' = Replace(f, [f EXCEPT !.pc =
       IF f.verb = "provision" THEN "createAccount"
       ELSE IF f.snap.radwareServiceId # Undefined THEN "deleteService"
       ELSE "deleteAccount"])
  /\ resp' = Response(f.verb, f.inst, 202, "", f.op, "", "")
  /\ UNCHANGED <<enableAsync, now, storeVars, upstream>>

\* setTimeout(async () => {...}, 0) fires: the job issues its first upstream call
JobStart(f) ==
  /\ f.pc = "scheduled"
  /\ inflight' = Replace(f, [f EXCEPT !.pc =
       IF f.verb = "provision" THEN "createAccount"
       ELSE IF f.snap.radwareServiceId # Undefined THEN "deleteService"
       ELSE "deleteAccount"])
  /\ Silent /\ UNCHANGED <<enableAsync, now, storeVars, upstream>>

\* a catch block that gives up the instance record
FailDeletingInstance(f, error) ==
  /\ resp' = RespondError(f.verb, f.inst, error)
  /\ inflight' = Remove(f)
  /\ SetStore(deleteInstance(Store, f.inst))

\* a catch block that also drops the binding the request named
FailDroppingBinding(f, error) ==
  /\ resp' = RespondError(f.verb, f.inst, error)
  /\ inflight' = Remove(f)
  /\ SetStore(deleteBinding(Store, f.bid))

\* the catch blocks: of the detached job (updateOperation 'failed') or of the route
Fail(f, error) ==
  IF f.mode = "async" THEN
    IF updateOperationThrows(Store, f.op)
      THEN /\ inflight' = Replace(f, [f EXCEPT !.pc = "unhandledRejection"])
           /\ Silent /\ UNCHANGED storeVars
      ELSE /\ SetStore(updateOperation(Store, f.op, "failed", ErrorDescription(error)))
           /\ inflight' = Remove(f)
           /\ Silent
  ELSE
    /\ resp' = RespondError(f.verb, f.inst, error)
    /\ inflight' = Remove(f)
    /\ UNCHANGED storeVars

\* RadwareApi.createAccount returns inside createAccountOrServiceForInstance
CreateAccountReturns(f) ==
  /\ f.pc = "createAccount"
  /\ \/ /\ Len(upstream) < MaxAccounts
        /\ upstream' = Append(upstream, [inst |-> f.inst, account |-> "live",
                                         service |-> "none", plan |-> Missing,
                                         users |-> <<>>])
        /\ inflight' = Replace(f, [f EXCEPT !.pc = "createService",
                                            !.acct = Len(upstream) + 1])
        /\ Silent /\ UNCHANGED storeVars
     \/ \E raw \in RawFailures :
          /\ Fail(f, mapError(raw))
          /\ UNCHANGED upstream
  /\ UNCHANGED <<enableAsync, now>>

\* RadwareApi.createService returns; on success the caller stores the instance
CreateServiceReturns(f) ==
  /\ f.pc = "createService"
  /\ \/ /\ upstream' = [upstream EXCEPT ![f.acct].service = "live", ![f.acct].plan = f.pid]
        /\ LET created == createInstance(Store, f.inst, InstanceData(f))
           IN
           IF createInstanceThrows(Store, f.inst) THEN
             Fail(f, ThrownError("Instance already exists"))
           ELSE IF f.mode = "async" THEN
             IF updateOperationThrows(created, f.op)
               THEN /\ SetStore(created)
                    /\ inflight' = Replace(f, [f EXCEPT !.pc = "unhandledRejection"])
                    /\ Silent
               ELSE /\ SetStore(updateOperation(created, f.op, "succeeded",
                                   "Service instance provisioned successfully"))
                    /\ inflight' = Remove(f)
                    /\ Silent
           ELSE
             /\ SetStore(created)
             /\ inflight' = Remove(f)
             /\ resp' = Response("provision", f.inst, 201, DashboardUrl(f.inst),
                                 NoOperation, "", "")
     \/ \E raw \in RawFailures :
          /\ Fail(f, mapError(raw))
          /\ UNCHANGED upstream
  /\ UNCHANGED <<enableAsync, now>>

\* --------------------------------------------------------- deprovision
\* DELETE /v2/service_instances/:instance_id, up to its first await
DeprovisionRequest(instanceId, service_id, plan_id, acceptsIncomplete) ==
  /\ LET instance == getInstance(Store, instanceId)
         operationId == OperationId("deprovision", instanceId, now)
         \* deleteAccountOrService: if (serviceId) delete the service first
         firstCall == IF instance.radwareServiceId # Undefined
                        THEN "deleteService" ELSE "deleteAccount"
     IN
     IF MissingIds(service_id, plan_id) THEN
       Answer(Describe("deprovision", instanceId, 400,
                       "service_id and plan_id are required query parameters"))
     ELSE IF instance = NoInstance THEN
       Answer(Describe("deprovision", instanceId, GoneStatus, ""))
     ELSE IF Mismatched(instance, service_id, plan_id) THEN
       Answer(Describe("deprovision", instanceId, 409,
                       "Mismatched service_id/plan_id for this instance"))
     ELSE IF hasPendingOperation(Store, instanceId) THEN
       Answer(Describe("deprovision", instanceId, 422,
                       "Another operation for this service instance is in progress"))
     ELSE IF AsyncAccepted(acceptsIncomplete) THEN
       /\ HasRoom
       /\ SetStore(setOperation(Store, instanceId, operationId,
                                [type |-> "deprovision", state |-> "in progress",
                                 description |-> "Deprovisioning service instance"]))
       /\ inflight' = Add(Flow("deprovision", instanceId, "async", "scheduled", service_id,
                               plan_id, Missing, EmptyParams, operationId, instance, 0))
       /\ resp' = Response("deprovision", instanceId, 202, "", operationId, "", "")
       /\ UNCHANGED <<enableAsync, now, upstream>>
     ELSE
       /\ HasRoom
       /\ inflight' = Add(Flow("deprovision", instanceId, "sync", firstCall, service_id,
                               plan_id, Missing, EmptyParams, NoOperation, instance, 0))
       /\ Silent /\ UNCHANGED <<enableAsync, now, storeVars, upstream>>

\* a deleteAccountOrService that goes on to the account whatever the service delete gave
DeleteServiceReturnsSwallowing(f) ==
  /\ f.pc = "deleteService"
  /\ inflight' = Replace(f, [f EXCEPT !.pc = "deleteAccount"])
  /\ Silent
  /\ UNCHANGED <<enableAsync, now, storeVars, upstream>>

\* DELETE .../services/{serviceId} returns inside deleteAccountOrService
DeleteServiceReturns(f) ==
  /\ f.pc = "deleteService"
  /\ \/ /\ upstream' = [upstream EXCEPT ![f.snap.radwareServiceId.n].service = "deleted",
                                         ![f.snap.radwareServiceId.n].plan = Missing]
        /\ inflight' = Replace(f, [f EXCEPT !.pc = "deleteAccount"])
        /\ Silent /\ UNCHANGED storeVars
     \/ \E raw \in RawFailures :
          /\ Fail(f, mapError(raw))
          /\ UNCHANGED upstream
  /\ UNCHANGED <<enableAsync, now>>

\* DELETE .../accounts/{accountId} returns; on success the caller deletes the instance
DeleteAccountReturns(f) ==
  /\ f.pc = "deleteAccount"
  /\ \/ /\ upstream' = [upstream EXCEPT ![f.snap.accountId.n].account = "deleted"]
        /\ LET deleted == deleteInstance(Store, f.inst)
           IN
           IF f.mode = "async" THEN
             IF updateOperationThrows(deleted, f.op)
               THEN /\ SetStore(deleted)
                    /\ inflight' = Replace(f, [f EXCEPT !.pc = "unhandledRejection"])
                    /\ Silent
               ELSE /\ SetStore(updateOperation(deleted, f.op, "succeeded",
                                   "Service instance deprovisioned successfully"))
                    /\ inflight' = Remove(f)
                    /\ Silent
           ELSE
             /\ SetStore(deleted)
             /\ inflight' = Remove(f)
             /\ resp' = Describe("deprovision", f.inst, 200, "")
     \/ \E raw \in RawFailures :
          /\ Fail(f, mapError(raw))
          /\ UNCHANGED upstream
  /\ UNCHANGED <<enableAsync, now>>

\* --------------------------------------------------------------- update
\* the OSB service id of the instance, where it stands in for an upstream service id
OsbServiceId == [kind |-> "osb-service", n |-> 0]

\* the OSB service id itself
PlanChangeByOsbServiceId(instance) == OsbServiceId

\* instance.radwareServiceId || instance.serviceId
PlanChangeServiceId(instance) ==
  IF instance.radwareServiceId # Undefined THEN instance.radwareServiceId
  ELSE IF instance.serviceId # Missing THEN OsbServiceId
  ELSE Undefined

\* PATCH /v2/service_instances/:instance_id, up to its first await
PatchRequest(instanceId, plan_id, context, parameters) ==
  /\ LET instance == getInstance(Store, instanceId)
         radwareServiceId == PlanChangeServiceId(instance)
         updates == Updates(instance, plan_id, context, parameters)
     IN
     IF instance = NoInstance THEN
       Answer(Describe("update", instanceId, NotFoundStatus, "Service instance not found"))
     ELSE IF hasPendingOperation(Store, instanceId) THEN
       Answer(Describe("update", instanceId, 422,
                       "Another operation for this service instance is in progress"))
     ELSE IF plan_id # Missing /\ plan_id # instance.planId THEN
       IF radwareServiceId = Undefined THEN
         Answer(Describe("update", instanceId, 500,
                         "Missing Radware service id on instance record"))
       ELSE
         /\ HasRoom
         /\ inflight' = Add([Flow("update", instanceId, "sync", "updatePlan", Missing,
                                  plan_id, context, parameters, NoOperation, instance, 0)
                               EXCEPT !.arg = radwareServiceId])
         /\ Silent /\ UNCHANGED <<enableAsync, now, storeVars, upstream>>
     ELSE
       /\ SetStore(updateInstance(Store, instanceId, updates))
       /\ resp' = Describe("update", instanceId, 200, "")
       /\ UNCHANGED <<enableAsync, now, upstream, inflight>>

\* the backend after PUT .../services/{serviceId} with { planId: newPlanId }: the
\* service it holds under that id takes the plan; a service it deleted keeps none
PlanApplied(up, serviceId, newPlanId) ==
  IF /\ serviceId.kind = "service"
     /\ serviceId.n \in 1..Len(up)
     /\ up[serviceId.n].service = "live"
  THEN [up EXCEPT ![serviceId.n].plan = newPlanId]
  ELSE up

\* RadwareApi.updateServicePlan returns; on success the caller merges local state
UpdatePlanReturns(f) ==
  /\ f.pc = "updatePlan"
  /\ \/ LET updates == Updates(f.snap, f.pid, f.ctx, f.params)
        IN
        /\ upstream' = PlanApplied(upstream, f.arg, f.pid)
        /\ IF updateInstanceThrows(Store, f.inst) THEN
             Fail(f, ThrownError("Instance not found"))
           ELSE
             /\ SetStore(updateInstance(Store, f.inst, updates))
             /\ inflight' = Remove(f)
             /\ resp' = Describe("update", f.inst, 200, "")
     \/ \E raw \in RawFailures :
          /\ Fail(f, mapError(raw))
          /\ UNCHANGED upstream
  /\ UNCHANGED <<enableAsync, now>>

\* ------------------------------------------------------- last_operation
\* res.status(200).json({ state, description })
RespondState(instanceId, operationData) ==
  [Describe("last_operation", instanceId, 200, operationData.description)
     EXCEPT !.state = operationData.state]

\* what GET .../last_operation?operation= answers over store s; an absent query
\* parameter is NoOperation
LastOperationResponse(s, instanceId, operation) ==
  LET operationData == getOperation(s, operation)
  IN  IF operation = NoOperation THEN
        Describe("last_operation", instanceId, 400, "operation query parameter is required")
      ELSE IF operationData = NoOperationData THEN
        Describe("last_operation", instanceId, 404, "Operation not found")
      ELSE RespondState(instanceId, operationData)

\* GET /v2/service_instances/:instance_id/last_operation
LastOperationRequest(instanceId, operation) ==
  Answer(LastOperationResponse(Store, instanceId, operation))

\* ----------------------------------------------------------------- bind
\* existingBinding.serviceId === service_id && existingBinding.planId === plan_id
SameBindingAttributes(binding, service_id, plan_id) ==
  binding.serviceId = service_id /\ binding.planId = plan_id

\* credentials that drop the email of the contact user
CredentialsWithoutEmail(contactUser, instance) ==
  [userId |-> contactUser.id, email |-> Missing, accountId |-> instance.accountId]

\* { userId: contactUser.id, email: contactUser.email, accountId: instance.accountId }
Credentials(contactUser, instance) ==
  [userId |-> contactUser.id, email |-> contactUser.email, accountId |-> instance.accountId]

\* the binding record the bind route hands to createBinding
BindingData(f, contactUser) ==
  [instanceId |-> Missing, serviceId |-> f.sid, planId |-> f.pid,
   credentials |-> Credentials(contactUser, f.snap), radwareUserId |-> contactUser.id]

\* PUT /v2/service_instances/:instance_id/service_bindings/:binding_id, up to its await
BindRequest(instanceId, bindingId, service_id, plan_id, email) ==
  /\ LET instance == getInstance(Store, instanceId)
         existingBinding == getBinding(Store, bindingId)
     IN
     IF MissingIds(service_id, plan_id) THEN
       Answer(Describe("bind", instanceId, 400, "service_id and plan_id are required"))
     ELSE IF instance = NoInstance THEN
       Answer(Describe("bind", instanceId, 404, "Service instance not found"))
     ELSE IF existingBinding # NoBinding THEN
       IF SameBindingAttributes(existingBinding, service_id, plan_id)
         THEN Answer(RespondCredentials("bind", instanceId, 200,
                                        existingBinding.credentials))
         ELSE Answer(Describe("bind", instanceId, 409,
                              "Binding already exists with different attributes"))
     ELSE IF email = Missing THEN
       Answer(Response("bind", instanceId, 422, "", NoOperation, "RequiresApp",
              "This service requires email parameter for creating contact user"))
     ELSE
       /\ HasRoom
       /\ inflight' = Add(BindingFlow("bind", instanceId, bindingId, "createContactUser",
                                      service_id, plan_id, email, instance, Undefined))
       /\ Silent /\ UNCHANGED <<enableAsync, now, storeVars, upstream>>

\* RadwareApi.createContactUser returns; on success the caller stores the binding
CreateContactUserReturns(f) ==
  /\ f.pc = "createContactUser"
  /\ \/ LET a == f.snap.accountId.n
            contactUser == [id |-> UserId(a, Len(upstream[a].users) + 1),
                            email |-> f.email]
        IN
        /\ Len(upstream[a].users) < MaxUsers
        /\ upstream' = [upstream EXCEPT ![a].users =
                          Append(@, [email |-> f.email, state |-> "live"])]
        /\ IF createBindingThrows(Store, f.inst, f.bid) THEN
             Fail(f, ThrownError(createBindingMessage(Store, f.inst, f.bid)))
           ELSE
             /\ SetStore(createBinding(Store, f.inst, f.bid, BindingData(f, contactUser)))
             /\ inflight' = Remove(f)
             /\ resp' = RespondCredentials("bind", f.inst, 201,
                                           Credentials(contactUser, f.snap))
     \/ \E raw \in RawFailures :
          /\ Fail(f, mapError(raw))
          /\ UNCHANGED upstream
  /\ UNCHANGED <<enableAsync, now>>

\* --------------------------------------------------------------- unbind
\* && in place of ||
MismatchedBindingBoth(binding, service_id, plan_id) ==
  binding.serviceId # service_id /\ binding.planId # plan_id

\* binding.serviceId !== service_id || binding.planId !== plan_id
MismatchedBinding(binding, service_id, plan_id) ==
  binding.serviceId # service_id \/ binding.planId # plan_id

\* DELETE /v2/service_instances/:instance_id/service_bindings/:binding_id, up to its await
UnbindRequest(instanceId, bindingId, service_id, plan_id) ==
  /\ LET binding == getBinding(Store, bindingId)
     IN
     IF MissingIds(service_id, plan_id) THEN
       Answer(Describe("unbind", instanceId, 400,
                       "service_id and plan_id are required query parameters"))
     ELSE IF binding = NoBinding THEN
       Answer(Describe("unbind", instanceId, 410, ""))
     ELSE IF MismatchedBinding(binding, service_id, plan_id) THEN
       Answer(Describe("unbind", instanceId, 409,
                       "Mismatched service_id/plan_id for this binding"))
     ELSE
       /\ HasRoom
       /\ inflight' = Add(BindingFlow("unbind", instanceId, bindingId, "deleteContactUser",
                                      service_id, plan_id, Missing, NoInstance,
                                      binding.radwareUserId))
       /\ Silent /\ UNCHANGED <<enableAsync, now, storeVars, upstream>>

\* RadwareApi.deleteContactUser returns; on success the caller deletes the binding
DeleteContactUserReturns(f) ==
  /\ f.pc = "deleteContactUser"
  /\ \/ /\ upstream' = [upstream EXCEPT ![f.arg.acct].users[f.arg.n].state = "deleted"]
        /\ SetStore(deleteBinding(Store, f.bid))
        /\ inflight' = Remove(f)
        /\ resp' = Describe("unbind", f.inst, 200, "")
     \/ \E raw \in RawFailures :
          /\ Fail(f, mapError(raw))
          /\ UNCHANGED upstream
  /\ UNCHANGED <<enableAsync, now>>

\* ------------------------------------------------------------ requests
Flags == BOOLEAN
ProvisionParameters == {EmptyParams}
PatchParameters == {EmptyParams}
Contexts == {Missing}

Provision ==
  \E i \in InstanceIds, s \in ServiceIds \cup {Missing}, p \in PlanIds \cup {Missing},
     a \in Flags, c \in Contexts, q \in ProvisionParameters :
    ProvisionRequest(i, s, p, a, c, q)

Deprovision ==
  \E i \in InstanceIds, s \in ServiceIds \cup {Missing}, p \in PlanIds \cup {Missing},
     a \in Flags :
    DeprovisionRequest(i, s, p, a)

Patch ==
  \E i \in InstanceIds, p \in PlanIds \cup {Missing}, c \in Contexts, q \in PatchParameters :
    PatchRequest(i, p, c, q)

StartJob == \E f \in Flows : JobStart(f)
AccountCreated == \E f \in Flows : CreateAccountReturns(f)
ServiceCreated == \E f \in Flows : CreateServiceReturns(f)
ServiceDeleted == \E f \in Flows : DeleteServiceReturns(f)
AccountDeleted == \E f \in Flows : DeleteAccountReturns(f)
PlanUpdated == \E f \in Flows : UpdatePlanReturns(f)

Bind ==
  \E i \in InstanceIds, b \in BindingIds, s \in ServiceIds \cup {Missing},
     p \in PlanIds \cup {Missing}, e \in Emails \cup {Missing} :
    BindRequest(i, b, s, p, e)

Unbind ==
  \E i \in InstanceIds, b \in BindingIds, s \in ServiceIds \cup {Missing},
     p \in PlanIds \cup {Missing} :
    UnbindRequest(i, b, s, p)

ContactUserCreated == \E f \in Flows : CreateContactUserReturns(f)
ContactUserDeleted == \E f \in Flows : DeleteContactUserReturns(f)

Next ==
  \/ Provision
  \/ Deprovision
  \/ Patch
  \/ StartJob
  \/ AccountCreated
  \/ ServiceCreated
  \/ ServiceDeleted
  \/ AccountDeleted
  \/ PlanUpdated
  \/ Tick

Spec == Init /\ [][Next]_vars

\* every operation id the broker can form
OperationIds ==
  {OperationId(type, i, ts) :
     type \in {"provision", "deprovision"}, i \in InstanceIds, ts \in 0..MaxTime}

\* a detached job of instance i takes its next step: its timer fires, or the upstream
\* call it awaits returns or fails
JobStep(i) ==
  \E f \in Flows :
    /\ f.mode = "async" /\ f.inst = i
    /\ \/ JobStart(f)
       \/ CreateAccountReturns(f)
       \/ CreateServiceReturns(f)
       \/ DeleteServiceReturns(f)
       \/ DeleteAccountReturns(f)

\* the steps that create, advance or run beside a job; PATCH touches no operation
AsyncNext ==
  \/ Provision
  \/ Deprovision
  \/ StartJob
  \/ AccountCreated
  \/ ServiceCreated
  \/ ServiceDeleted
  \/ AccountDeleted
  \/ Tick

\* a broker configured with ENABLE_ASYNC=true, the only one that accepts operations
AsyncInit == Init /\ enableAsync

\* the event loop runs every timer that is due and every upstream call returns or fails
FairSpec ==
  AsyncInit /\ [][AsyncNext]_vars /\ \A i \in InstanceIds : WF_vars(JobStep(i))

\* well-formed provision and deprovision requests for the instance that owns bindings
ProvisionOwner ==
  \E i \in InstanceIds, s \in ServiceIds, a \in Flags :
    ProvisionRequest(i, s, "standard", a, Missing, EmptyParams)

DeprovisionOwner ==
  \E i \in InstanceIds, s \in ServiceIds, a \in Flags :
    DeprovisionRequest(i, s, "standard", a)

\* the broker's binding routes beside provision and deprovision of the owning instance
BindNext ==
  \/ ProvisionOwner
  \/ DeprovisionOwner
  \/ Bind
  \/ Unbind
  \/ StartJob
  \/ AccountCreated
  \/ ServiceCreated
  \/ ServiceDeleted
  \/ AccountDeleted
  \/ ContactUserCreated
  \/ ContactUserDeleted

BindSpec == Init /\ [][BindNext]_vars

\* a platform that provisions and deprovisions one instance and polls its operations
PollNext ==
  \/ ProvisionOwner
  \/ DeprovisionOwner
  \/ \E i \in InstanceIds, o \in OperationIds \cup {NoOperation} :
       LastOperationRequest(i, o)
  \/ StartJob
  \/ AccountCreated
  \/ ServiceCreated
  \/ ServiceDeleted
  \/ AccountDeleted
  \/ Tick

PollSpec == Init /\ [][PollNext]_vars

\* the platform waits for the answer to one request before it sends the next
Quiet == inflight = EmptyBag

\* every route of the router behind its header validation, on a synchronous broker:
\* requests as they reach the router, each with its X-Broker-API-Version header
HeaderNext ==
  \/ \E h \in ApiVersions : Quiet /\ validateOSBHeaders(h, "catalog", "", CatalogRequest)
  \/ \E h \in ApiVersions, i \in InstanceIds, s \in ServiceIds :
       /\ Quiet
       /\ validateOSBHeaders(h, "provision", i,
             ProvisionRequest(i, s, "standard", FALSE, Missing, EmptyParams))
  \/ \E h \in ApiVersions, i \in InstanceIds, o \in OperationIds :
       Quiet /\ validateOSBHeaders(h, "last_operation", i, LastOperationRequest(i, o))
  \/ \E h \in ApiVersions, i \in InstanceIds, p \in PlanIds :
       Quiet /\ validateOSBHeaders(h, "update", i, PatchRequest(i, p, Missing, EmptyParams))
  \/ \E h \in ApiVersions, i \in InstanceIds, s \in ServiceIds :
       /\ Quiet
       /\ validateOSBHeaders(h, "deprovision", i,
                             DeprovisionRequest(i, s, "standard", FALSE))
  \/ \E h \in ApiVersions, i \in InstanceIds, b \in BindingIds, s \in ServiceIds,
        e \in Emails :
       Quiet /\ validateOSBHeaders(h, "bind", i, BindRequest(i, b, s, "standard", e))
  \/ \E h \in ApiVersions, i \in InstanceIds, b \in BindingIds, s \in ServiceIds :
       Quiet /\ validateOSBHeaders(h, "unbind", i, UnbindRequest(i, b, s, "standard"))
  \/ AccountCreated
  \/ ServiceCreated
  \/ ServiceDeleted
  \/ AccountDeleted
  \/ PlanUpdated
  \/ ContactUserCreated
  \/ ContactUserDeleted

\* a broker with ENABLE_ASYNC=false, the default, and an empty store
SyncInit == Init /\ ~enableAsync

HeaderSpec == SyncInit /\ [][HeaderNext]_vars

\* ----------------------------------------------- the store, called directly
StoreIds == {"i1", "i2"}
StoreBindingIds == {"b1", "b2"}

\* `${type}-${instanceId}-${Date.now()}` for the operations a caller registers
StoreOperationIds ==
  {OperationId("provision", "i1", 0), OperationId("deprovision", "i1", 0),
   OperationId("provision", "i2", 0)}

\* what a store call gave back: the value it returned, or "throws"
StoreReturn(call, instanceId, value) ==
  [NoResp EXCEPT !.verb = call, !.inst = instanceId, !.description = value]

Bool(b) == IF b THEN "true" ELSE "false"

\* the record of a provisioned instance
StoredInstanceData ==
  [serviceId |-> "svc", planId |-> "standard", context |-> Missing,
   parameters |-> EmptyParams, accountId |-> AccountId(1),
   radwareServiceId |-> UpServiceId(1), updatedAt |-> 0]

\* the record of a binding
StoredBindingData ==
  [instanceId |-> Missing, serviceId |-> "svc", planId |-> "standard",
   credentials |-> NoCredentials, radwareUserId |-> Undefined]

CreateInstanceCall(instanceId) ==
  /\ IF createInstanceThrows(Store, instanceId)
       THEN /\ resp' = StoreReturn("createInstance", instanceId, "throws")
            /\ UNCHANGED storeVars
       ELSE /\ SetStore(createInstance(Store, instanceId, StoredInstanceData))
            /\ resp' = StoreReturn("createInstance", instanceId, "returns")
  /\ UNCHANGED <<enableAsync, now, upstream, inflight>>

DeleteInstanceCall(instanceId) ==
  /\ SetStore(deleteInstance(Store, instanceId))
  /\ resp' = StoreReturn("deleteInstance", instanceId,
                         Bool(instanceId \in DOMAIN instances))
  /\ UNCHANGED <<enableAsync, now, upstream, inflight>>

CreateBindingCall(instanceId, bindingId) ==
  /\ IF createBindingThrows(Store, instanceId, bindingId)
       THEN /\ resp' = StoreReturn("createBinding", instanceId, "throws")
            /\ UNCHANGED storeVars
       ELSE /\ SetStore(createBinding(Store, instanceId, bindingId, StoredBindingData))
            /\ resp' = StoreReturn("createBinding", instanceId, "returns")
  /\ UNCHANGED <<enableAsync, now, upstream, inflight>>

SetOperationCall(instanceId, operationId, state) ==
  /\ SetStore(setOperation(Store, instanceId, operationId,
                           [type |-> operationId.type, state |-> state,
                            description |-> ""]))
  /\ resp' = StoreReturn("setOperation", instanceId, "returns")
  /\ UNCHANGED <<enableAsync, now, upstream, inflight>>

UpdateOperationCall(operationId, state) ==
  /\ IF updateOperationThrows(Store, operationId)
       THEN /\ resp' = StoreReturn("updateOperation", operationId.inst, "throws")
            /\ UNCHANGED storeVars
       ELSE /\ SetStore(updateOperation(Store, operationId, state, ""))
            /\ resp' = StoreReturn("updateOperation", operationId.inst, "returns")
  /\ UNCHANGED <<enableAsync, now, upstream, inflight>>

DeleteOperationCall(operationId) ==
  /\ SetStore(deleteOperation(Store, operationId))
  /\ resp' = StoreReturn("deleteOperation", operationId.inst,
                         Bool(operationId \in DOMAIN operations))
  /\ UNCHANGED <<enableAsync, now, upstream, inflight>>

ClearOperationsCall(instanceId) ==
  /\ SetStore(clearOperationsForInstance(Store, instanceId))
  /\ resp' = StoreReturn("clearOperationsForInstance", instanceId, "returns")
  /\ UNCHANGED <<enableAsync, now, upstream, inflight>>

StoreStates == {"in progress", "succeeded", "failed"}

\* any sequence of calls on the store
StoreNext ==
  \/ \E i \in StoreIds : CreateInstanceCall(i)
  \/ \E i \in StoreIds : DeleteInstanceCall(i)
  \/ \E i \in StoreIds, b \in StoreBindingIds : CreateBindingCall(i, b)
  \/ \E o \in StoreOperationIds, st \in StoreStates : SetOperationCall(o.inst, o, st)
  \/ \E o \in StoreOperationIds, st \in StoreStates : UpdateOperationCall(o, st)
  \/ \E o \in StoreOperationIds : DeleteOperationCall(o)
  \/ \E i \in StoreIds : ClearOperationsCall(i)

StoreSpec == SyncInit /\ [][StoreNext]_vars

\* the parameters objects a caller of the store holds: whole bags and partial ones
ParameterBags == [ParamKeys -> {"v1", "v2", Missing}]

CreateInstanceWith(instanceId, parameters) ==
  /\ IF createInstanceThrows(Store, instanceId)
       THEN /\ resp' = StoreReturn("createInstance", instanceId, "throws")
            /\ UNCHANGED storeVars
       ELSE /\ SetStore(createInstance(Store, instanceId,
                           [StoredInstanceData EXCEPT !.parameters = parameters]))
            /\ resp' = StoreReturn("createInstance", instanceId, "returns")
  /\ UNCHANGED <<enableAsync, now, upstream, inflight>>

\* updateInstance(instanceId, { parameters }): the spread { ...current, ...updates }
\* takes planId and context from the current record and parameters from updates
UpdateInstanceCall(instanceId, parameters) ==
  /\ IF updateInstanceThrows(Store, instanceId)
       THEN /\ resp' = StoreReturn("updateInstance", instanceId, "throws")
            /\ UNCHANGED storeVars
       ELSE /\ SetStore(updateInstance(Store, instanceId,
                           [planId |-> instances[instanceId].planId,
                            context |-> instances[instanceId].context,
                            parameters |-> parameters]))
            /\ resp' = StoreReturn("updateInstance", instanceId, "returns")
  /\ UNCHANGED <<enableAsync, now, upstream, inflight>>

\* the partial parameters objects: those that name a key
Partials == ParameterBags \ {EmptyParams}

\* instances created, updated and deleted through the store
InstanceNext ==
  \/ \E i \in StoreIds, q \in ParameterBags : CreateInstanceWith(i, q)
  \/ \E i \in StoreIds, q \in Partials : UpdateInstanceCall(i, q)
  \/ \E i \in StoreIds : DeleteInstanceCall(i)

InstanceSpec == SyncInit /\ [][InstanceNext]_vars

\* ------------------------------------------- the durable store, called directly
\* The database holds one document per instance, binding and operation; every request
\* to it (getDocument, putDocument, deleteDocument, postFind) is one step, and a store
\* method awaits each request before it sends the next. One mutating method runs at a
\* time; readers run beside it.

\* a CloudantStore method suspended at an await: the request it waits for, and the
\* documents its loop has still to delete
CloudantCall(verb, instanceId, pc, bindingId, operationId, state, found, finished) ==
  [verb |-> verb, inst |-> instanceId, pc |-> pc, bid |-> bindingId, op |-> operationId,
   state |-> state, bindings |-> found, operations |-> finished]

\* selector { type: 'binding', instanceId }
CloudantBindingsByInstance(instanceId) ==
  {b \in DOMAIN bindings : bindings[b].instanceId = instanceId}

\* selector { type: 'operation', instanceId }, filtered by the loop of deleteInstance
CloudantFinishedOperations(instanceId) ==
  {id \in DOMAIN operations :
     operations[id].instanceId = instanceId /\ IsTerminal(operations[id])}

\* createInstance: putDocument without a revision answers 409 when the document exists
CloudantCreateInstance(instanceId) ==
  /\ Quiet
  /\ IF instanceId \in DOMAIN instances
       THEN /\ resp' = StoreReturn("createInstance", instanceId, "throws")
            /\ UNCHANGED storeVars
       ELSE /\ instances' = MapSet(instances, instanceId, StoredInstanceData)
            /\ resp' = StoreReturn("createInstance", instanceId, "returns")
            /\ UNCHANGED <<bindings, operations, instanceOps, pendingOperations>>
  /\ UNCHANGED <<enableAsync, now, upstream, inflight>>

\* createBinding, up to the answer of getInstance
CloudantCreateBindingStarts(instanceId, bindingId) ==
  /\ Quiet
  /\ IF instanceId \notin DOMAIN instances
       THEN /\ resp' = StoreReturn("createBinding", instanceId, "throws")
            /\ UNCHANGED inflight
       ELSE /\ inflight' = Add(CloudantCall("createBinding", instanceId, "putDocument",
                                            bindingId, NoOperation, "", {}, {}))
            /\ Silent
  /\ UNCHANGED <<enableAsync, now, storeVars, upstream>>

\* createBinding: its putDocument is answered
CloudantCreateBindingPuts(c) ==
  /\ c.verb = "createBinding" /\ c.pc = "putDocument"
  /\ IF c.bid \in DOMAIN bindings
       THEN /\ resp' = StoreReturn("createBinding", c.inst, "throws")
            /\ UNCHANGED storeVars
       ELSE /\ bindings' = MapSet(bindings, c.bid,
                                  [StoredBindingData EXCEPT !.instanceId = c.inst])
            /\ resp' = StoreReturn("createBinding", c.inst, "returns")
            /\ UNCHANGED <<instances, operations, instanceOps, pendingOperations>>
  /\ inflight' = Remove(c)
  /\ UNCHANGED <<enableAsync, now, upstream>>

\* setOperation: one putDocument
CloudantSetOperation(instanceId, operationId, state) ==
  /\ Quiet
  /\ IF operationId \in DOMAIN operations
       THEN /\ resp' = StoreReturn("setOperation", instanceId, "throws")
            /\ UNCHANGED storeVars
       ELSE /\ operations' =
                 MapSet(operations, operationId,
                        [type |-> operationId.type, state |-> state, description |-> "",
                         instanceId |-> instanceId])
            /\ resp' = StoreReturn("setOperation", instanceId, "returns")
            /\ UNCHANGED <<instances, bindings, instanceOps, pendingOperations>>
  /\ UNCHANGED <<enableAsync, now, upstream, inflight>>

\* updateOperation, up to the answer of getOperation
CloudantUpdateOperationStarts(operationId, state) ==
  /\ Quiet
  /\ IF operationId \notin DOMAIN operations
       THEN /\ resp' = StoreReturn("updateOperation", operationId.inst, "throws")
            /\ UNCHANGED inflight
       ELSE /\ inflight' = Add(CloudantCall("updateOperation", operationId.inst,
                                            "putDocument", "", operationId, state, {}, {}))
            /\ Silent
  /\ UNCHANGED <<enableAsync, now, storeVars, upstream>>

\* updateOperation: its putDocument, sent with the revision it read, is answered
CloudantUpdateOperationPuts(c) ==
  /\ c.verb = "updateOperation" /\ c.pc = "putDocument"
  /\ operations' = [operations EXCEPT ![c.op].state = c.state]
  /\ resp' = StoreReturn("updateOperation", c.inst, "returns")
  /\ inflight' = Remove(c)
  /\ UNCHANGED <<enableAsync, now, upstream, instances, bindings, instanceOps,
                 pendingOperations>>

\* deleteInstance, up to the answer of getInstance
CloudantDeleteInstanceStarts(instanceId) ==
  /\ Quiet
  /\ IF instanceId \notin DOMAIN instances
       THEN /\ resp' = StoreReturn("deleteInstance", instanceId, "false")
            /\ UNCHANGED inflight
       ELSE /\ inflight' = Add(CloudantCall("deleteInstance", instanceId, "deleteDocument",
                                            "", NoOperation, "", {}, {}))
            /\ Silent
  /\ UNCHANGED <<enableAsync, now, storeVars, upstream>>

\* deleteInstance: the instance document is deleted; getBindingsByInstance is sent
CloudantDeleteInstanceDeletes(c) ==
  /\ c.verb = "deleteInstance" /\ c.pc = "deleteDocument"
  /\ instances' = MapDelete(instances, c.inst)
  /\ inflight' = Replace(c, [c EXCEPT !.pc = "getBindingsByInstance"])
  /\ Silent
  /\ UNCHANGED <<enableAsync, now, upstream, bindings, operations, instanceOps,
                 pendingOperations>>

\* deleteInstance: getBindingsByInstance is answered; the loop sends its first delete,
\* or with nothing to delete listOperationsByInstance is sent
CloudantDeleteInstanceFindsBindings(c) ==
  /\ c.verb = "deleteInstance" /\ c.pc = "getBindingsByInstance"
  /\ LET found == CloudantBindingsByInstance(c.inst)
     IN  inflight' =
           Replace(c, [c EXCEPT !.bindings = found,
                                !.pc = IF found = {} THEN "listOperationsByInstance"
                                       ELSE "deleteBinding"])
  /\ Silent
  /\ UNCHANGED <<enableAsync, now, storeVars, upstream>>

\* deleteInstance: one binding document is deleted
CloudantDeleteInstanceDeletesBinding(c) ==
  /\ c.verb = "deleteInstance" /\ c.pc = "deleteBinding"
  /\ \E b \in c.bindings :
       /\ bindings' = MapDelete(bindings, b)
       /\ inflight' =
            Replace(c, [c EXCEPT !.bindings = @ \ {b},
                                 !.pc = IF c.bindings = {b} THEN "listOperationsByInstance"
                                        ELSE "deleteBinding"])
  /\ Silent
  /\ UNCHANGED <<enableAsync, now, upstream, instances, operations, instanceOps,
                 pendingOperations>>

\* deleteInstance: listOperationsByInstance is answered; the loop sends the delete of
\* the first finished operation, or with none the method returns true
CloudantDeleteInstanceFindsOperations(c) ==
  /\ c.verb = "deleteInstance" /\ c.pc = "listOperationsByInstance"
  /\ LET finished == CloudantFinishedOperations(c.inst)
     IN  IF finished = {}
           THEN /\ inflight' = Remove(c)
                /\ resp' = StoreReturn("deleteInstance", c.inst, "true")
           ELSE /\ inflight' = Replace(c, [c EXCEPT !.operations = finished,
                                                    !.pc = "deleteOperation"])
                /\ Silent
  /\ UNCHANGED <<enableAsync, now, storeVars, upstream>>

\* deleteInstance: one finished operation document is deleted; after the last one the
\* method returns true
CloudantDeleteInstanceDeletesOperation(c) ==
  /\ c.verb = "deleteInstance" /\ c.pc = "deleteOperation"
  /\ \E id \in c.operations :
       /\ operations' = MapDelete(operations, id)
       /\ IF c.operations = {id}
            THEN /\ inflight' = Remove(c)
                 /\ resp' = StoreReturn("deleteInstance", c.inst, "true")
            ELSE /\ inflight' = Replace(c, [c EXCEPT !.operations = @ \ {id}])
                 /\ Silent
  /\ UNCHANGED <<enableAsync, now, upstream, instances, bindings, instanceOps,
                 pendingOperations>>

\* a reader's getInstance: whether it found the document
CloudantGetInstance(instanceId) ==
  /\ resp' = StoreReturn("getInstance", instanceId, Bool(instanceId \in DOMAIN instances))
  /\ UNCHANGED <<enableAsync, now, storeVars, upstream, inflight>>

\* a reader's getBindingsByInstance: whether it found a binding
CloudantGetBindingsByInstance(instanceId) ==
  /\ resp' = StoreReturn("getBindingsByInstance", instanceId,
                         Bool(CloudantBindingsByInstance(instanceId) # {}))
  /\ UNCHANGED <<enableAsync, now, storeVars, upstream, inflight>>

CloudantNext ==
  \/ \E i \in StoreIds : CloudantCreateInstance(i)
  \/ \E i \in StoreIds, b \in StoreBindingIds : CloudantCreateBindingStarts(i, b)
  \/ \E c \in Flows : CloudantCreateBindingPuts(c)
  \/ \E o \in StoreOperationIds, st \in StoreStates : CloudantSetOperation(o.inst, o, st)
  \/ \E o \in StoreOperationIds, st \in StoreStates : CloudantUpdateOperationStarts(o, st)
  \/ \E c \in Flows : CloudantUpdateOperationPuts(c)
  \/ \E i \in StoreIds : CloudantDeleteInstanceStarts(i)
  \/ \E c \in Flows : CloudantDeleteInstanceDeletes(c)
  \/ \E c \in Flows : CloudantDeleteInstanceFindsBindings(c)
  \/ \E c \in Flows : CloudantDeleteInstanceDeletesBinding(c)
  \/ \E c \in Flows : CloudantDeleteInstanceFindsOperations(c)
  \/ \E c \in Flows : CloudantDeleteInstanceDeletesOperation(c)
  \/ \E i \in StoreIds : CloudantGetInstance(i)
  \/ \E i \in StoreIds : CloudantGetBindingsByInstance(i)

CloudantSpec == SyncInit /\ [][CloudantNext]_vars

\* the parameter bags a PATCH may carry: each names one key
MergeParameters == {[EmptyParams EXCEPT ![k] = "v1"] : k \in ParamKeys}

PatchMerge ==
  \E i \in InstanceIds, p \in PlanIds \cup {Missing}, c \in Contexts,
     q \in MergeParameters :
    PatchRequest(i, p, c, q)

\* PATCH requests, with and without a plan change, on an instance once it is provisioned
PatchNext ==
  \/ ProvisionOwner
  \/ PatchMerge
  \/ StartJob
  \/ AccountCreated
  \/ ServiceCreated
  \/ PlanUpdated
  \/ Tick

PatchSpec == Init /\ [][PatchNext]_vars

\* =================================================================== claims
InProgressOps(instanceId) ==
  {id \in DOMAIN operations :
     operations[id].instanceId = instanceId /\ operations[id].state = "in progress"}

PendingText == "Another operation for this service instance is in progress"

\* some request may have been handled in this step: an answer was sent or a flow began
RequestStep == resp' # NoResp \/ BagCardinality(inflight') > BagCardinality(inflight)

\* a request of the given verb may have been handled in this step: the answer sent is one
\* of that verb, or no answer was sent and a flow began
StepOf(verb) ==
  \/ resp'.verb = verb
  \/ resp' = NoResp /\ BagCardinality(inflight') > BagCardinality(inflight)

\* C1 as stated, for requests that carry both ids: while an operation for X is in
\* progress, every provision, update or deprovision request targeting X is answered 422;
\* the in-progress gate rejects a request only while an operation for X is in progress.
C1_Every422 ==
  /\ [][\A i \in InstanceIds :
          (InProgressOps(i) # {} /\ RequestStep) =>
            /\ \A s \in ServiceIds, p \in PlanIds, a \in Flags, c \in Contexts,
                  q \in ProvisionParameters :
                 ProvisionRequest(i, s, p, a, c, q) => resp'.status = 422
            /\ \A s \in ServiceIds, p \in PlanIds, a \in Flags :
                 DeprovisionRequest(i, s, p, a) => resp'.status = 422
            /\ \A p \in PlanIds, c \in Contexts, q \in PatchParameters :
                 PatchRequest(i, p, c, q) => resp'.status = 422]_vars
  /\ [](resp.description = PendingText => InProgressOps(resp.inst) # {})

\* C1 amended: while an operation for X is in progress, no provision, update or
\* deprovision request targeting X proceeds: it leaves the store, the backend and the
\* flows in flight unchanged, and it is answered 422 exactly when no earlier rule of its
\* verb answers it first (provision: ids present and X not stored; update: X stored;
\* deprovision: ids present, X stored with the same ids). The in-progress gate rejects a
\* request only while an operation for X is in progress.
C1_GateWhilePending ==
  /\ [][\A i \in InstanceIds :
          (InProgressOps(i) # {} /\ RequestStep) =>
            /\ StepOf("provision") =>
                 \A s \in ServiceIds \cup {Missing}, p \in PlanIds \cup {Missing},
                    a \in Flags, c \in Contexts, q \in ProvisionParameters :
                   ProvisionRequest(i, s, p, a, c, q) =>
                     /\ UNCHANGED <<storeVars, upstream, inflight>>
                     /\ (s # Missing /\ p # Missing /\ i \notin DOMAIN instances)
                          <=> (resp'.status = 422 /\ resp'.description = PendingText)
            /\ StepOf("deprovision") =>
                 \A s \in ServiceIds \cup {Missing}, p \in PlanIds \cup {Missing},
                    a \in Flags :
                   DeprovisionRequest(i, s, p, a) =>
                     /\ UNCHANGED <<storeVars, upstream, inflight>>
                     /\ (/\ s # Missing /\ p # Missing /\ i \in DOMAIN instances
                         /\ instances[i].serviceId = s /\ instances[i].planId = p)
                          <=> (resp'.status = 422 /\ resp'.description = PendingText)
            /\ StepOf("update") =>
                 \A p \in PlanIds \cup {Missing}, c \in Contexts, q \in PatchParameters :
                   PatchRequest(i, p, c, q) =>
                     /\ UNCHANGED <<storeVars, upstream, inflight>>
                     /\ (i \in DOMAIN instances)
                          <=> (resp'.status = 422 /\ resp'.description = PendingText)]_vars
  /\ [](resp.description = PendingText => InProgressOps(resp.inst) # {})

\* a request was just rejected by the in-progress gate while a deprovision was running
C1_Witness ==
  /\ resp.status = 422 /\ resp.description = PendingText /\ resp.verb = "update"
  /\ InProgressOps(resp.inst) # {}

\* C2: every instanceId has at most one operation in state 'in progress'.
C2_MutualExclusion ==
  \A i \in InstanceIds : Cardinality(InProgressOps(i)) <= 1

\* an operation is in progress while an earlier operation of the instance is recorded
C2_Witness ==
  \E i \in InstanceIds :
    /\ Cardinality(InProgressOps(i)) = 1
    /\ \E id \in DOMAIN operations :
         operations[id].instanceId = i /\ IsTerminal(operations[id])

\* the provision flows of instance i that passed the gate and are at or between their
\* upstream create calls
ProvisionsPastGate(i) ==
  LET fs == {f \in Flows : f.verb = "provision" /\ f.inst = i}
  IN  IF fs = {} THEN 0 ELSE BagCardinality([f \in fs |-> inflight[f]])

\* C3: of the concurrent provision requests for the same instanceId, synchronous or
\* asynchronous, at most one is past the 'no existing instance, no pending operation'
\* gate with its upstream create calls issued or about to be issued.
C3_AtMostOneWinner ==
  \A i \in InstanceIds : ProvisionsPastGate(i) <= 1

\* C4: a provision request whose ids equal those of the stored instance is answered 200
\* with the dashboard URL of the instance - the URL every successful provision of that
\* instance carries - and starts no upstream call and changes nothing.
C4_IdempotentProvision ==
  /\ [][\A i \in DOMAIN instances :
          StepOf("provision") =>
            \A a \in Flags, c \in Contexts, q \in ProvisionParameters :
              ProvisionRequest(i, instances[i].serviceId, instances[i].planId, a, c, q) =>
                /\ resp'.status = 200
                /\ resp'.dashboard_url = DashboardUrl(i)
                /\ UNCHANGED <<storeVars, upstream, inflight>>]_vars
  /\ [](resp.verb = "provision" /\ resp.status \in {200, 201}
          => resp.dashboard_url = DashboardUrl(resp.inst))

\* the second, identical provision request was just answered 200
C4_Witness ==
  /\ resp.verb = "provision" /\ resp.status = 200
  /\ resp.inst \in DOMAIN instances
  /\ resp.dashboard_url = DashboardUrl(resp.inst)

\* the backend created account n and then a service for it, for instance i
CreatedUpstream(i, n) ==
  /\ n \in 1..Len(upstream)
  /\ upstream[n].inst = i
  /\ upstream[n].service # "none"

\* a provision operation of instance i moves from 'in progress' to state st in this step
ProvisionOpEnds(i, st) ==
  \E id \in DOMAIN operations :
    /\ operations[id].type = "provision" /\ operations[id].instanceId = i
    /\ operations[id].state = "in progress"
    /\ id \in DOMAIN operations' /\ operations'[id].state = st

\* C5: a stored instance always names an upstream account and service that the backend
\* created for it, in that order; an instance record appears only in the step in which
\* its provision succeeds, never in a step in which a provision fails.
C5_InstanceOnlyAfterUpstream ==
  /\ [](\A i \in DOMAIN instances :
          /\ instances[i].accountId.kind = "account"
          /\ CreatedUpstream(i, instances[i].accountId.n)
          /\ instances[i].radwareServiceId = UpServiceId(instances[i].accountId.n))
  /\ [][\A i \in InstanceIds :
          (i \in DOMAIN instances' /\ i \notin DOMAIN instances) =>
            /\ \/ resp' = Response("provision", i, 201, DashboardUrl(i), NoOperation, "", "")
               \/ ProvisionOpEnds(i, "succeeded")
            /\ ~ProvisionOpEnds(i, "failed")
            /\ upstream'[instances'[i].accountId.n].service = "live"
            /\ upstream[instances'[i].accountId.n].service = "none"]_vars

\* an instance is stored after an earlier provision of it failed upstream
C5_Witness ==
  \E i \in DOMAIN instances :
    /\ CreatedUpstream(i, instances[i].accountId.n)
    /\ instances[i].accountId.n = 2

\* C6: every operation accepted with 202 eventually reaches 'succeeded' or 'failed',
\* given that timers fire and upstream calls return or fail: an operation in progress
\* stays recorded and can only become 'succeeded' or 'failed', every instance with an
\* operation in progress eventually has none, and no failure in a job escapes as an
\* unhandled rejection.
C6_OperationsTerminate ==
  /\ \A i \in InstanceIds : (InProgressOps(i) # {}) ~> (InProgressOps(i) = {})
  /\ [][\A o \in DOMAIN operations :
          operations[o].state = "in progress" =>
            /\ o \in DOMAIN operations'
            /\ operations'[o].state \in {"in progress", "succeeded", "failed"}]_vars
  /\ [](\A f \in Flows : f.pc # "unhandledRejection")

\* an async deprovision whose upstream delete failed has ended 'failed'
C6_Witness ==
  \E o \in DOMAIN operations :
    /\ operations[o].type = "deprovision" /\ operations[o].state = "failed"
    /\ operations[o].instanceId \in DOMAIN instances
    /\ operations[o].instanceId \notin pendingOperations

\* C7: an async provision's operation leaves 'in progress' as 'succeeded' exactly in the
\* step in which the backend's create-service succeeds after its create-account, and then
\* the instance is stored with the returned account id and service id; otherwise it ends
\* 'failed' with the mapped error description and no instance record exists.
C7_AsyncProvisionOutcome ==
  [][\A id \in DOMAIN operations :
       (operations[id].type = "provision" /\ operations[id].state = "in progress") =>
         LET i == operations[id].instanceId
             made == {n \in 1..Len(upstream) :
                        /\ upstream[n].inst = i
                        /\ upstream[n].service = "none" /\ upstream'[n].service = "live"}
         IN  /\ id \in DOMAIN operations'
             /\ operations'[id].state \in {"in progress", "succeeded", "failed"}
             /\ (operations'[id].state = "succeeded") <=> (made # {})
             /\ operations'[id].state = "succeeded" =>
                  /\ i \in DOMAIN instances'
                  /\ \E n \in made :
                       /\ instances'[i].accountId = AccountId(n)
                       /\ instances'[i].radwareServiceId = UpServiceId(n)
             /\ operations'[id].state = "failed" =>
                  /\ operations'[id].description \in
                       {mapError(raw).description : raw \in RawFailures}
                  /\ i \notin DOMAIN instances']_vars

\* an async provision failed: its operation carries the mapped description, no instance
C7_Witness ==
  \E id \in DOMAIN operations :
    /\ operations[id].type = "provision" /\ operations[id].state = "failed"
    /\ operations[id].description = "Resource not found in Radware backend"
    /\ operations[id].instanceId \notin DOMAIN instances

\* the rule that answers a provision request, first match first
ProvisionRule(i, s, p, a) ==
  IF s = Missing \/ p = Missing THEN "400"
  ELSE IF i \in DOMAIN instances THEN
    IF instances[i].serviceId = s /\ instances[i].planId = p THEN "200" ELSE "409"
  ELSE IF InProgressOps(i) # {} THEN "422"
  ELSE IF enableAsync /\ ~a THEN "AsyncRequired"
  ELSE IF enableAsync /\ a THEN "202"
  ELSE "sync"

\* C8: a provision request is answered by the first matching rule: ids missing -> 400;
\* instance stored with equal ids -> 200, with different ones -> 409; operation in
\* progress -> 422; async-only broker without accepts_incomplete -> 422 AsyncRequired;
\* async accepted -> 202 with the id of a registered operation; otherwise the request
\* provisions synchronously, and a synchronous provision that stores the instance
\* answers 201.
C8_ProvisionRuleOrder ==
  /\ [][StepOf("provision") =>
          \A i \in InstanceIds, s \in ServiceIds \cup {Missing},
             p \in PlanIds \cup {Missing}, a \in Flags, c \in Contexts,
             q \in ProvisionParameters :
            ProvisionRequest(i, s, p, a, c, q) =>
              LET rule == ProvisionRule(i, s, p, a)
              IN  /\ rule = "400" => resp'.status = 400
                  /\ rule = "200" => resp'.status = 200
                  /\ rule = "409" => resp'.status = 409
                  /\ rule = "422" => resp'.status = 422 /\ resp'.error = ""
                  /\ rule = "AsyncRequired" =>
                       resp'.status = 422 /\ resp'.error = "AsyncRequired"
                  /\ rule = "202" =>
                       /\ resp'.status = 202
                       /\ resp'.operation \in DOMAIN operations'
                       /\ operations'[resp'.operation].state = "in progress"
                  /\ rule = "sync" =>
                       /\ resp' = NoResp
                       /\ \E f \in BagToSet(inflight') :
                            /\ f.verb = "provision" /\ f.inst = i /\ f.mode = "sync"
                            /\ f.pc = "createAccount"
                            /\ CopiesIn(f, inflight') = CopiesIn(f, inflight) + 1
                  /\ rule \notin {"202", "sync"} =>
                       UNCHANGED <<storeVars, upstream, inflight>>]_vars
  /\ [][\A i \in InstanceIds :
          (~enableAsync /\ i \in DOMAIN instances' /\ i \notin DOMAIN instances) =>
            (resp'.verb = "provision" /\ resp'.inst = i /\ resp'.status = 201)]_vars

\* the async-only broker just refused a provision without accepts_incomplete
C8_Witness ==
  /\ resp.verb = "provision" /\ resp.status = 422 /\ resp.error = "AsyncRequired"
  /\ resp.inst \notin DOMAIN instances /\ InProgressOps(resp.inst) = {}

\* the rule that answers a deprovision request, first match first
DeprovisionRule(i, s, p) ==
  IF s = Missing \/ p = Missing THEN "400"
  ELSE IF i \notin DOMAIN instances THEN "410"
  ELSE IF instances[i].serviceId # s \/ instances[i].planId # p THEN "409"
  ELSE IF InProgressOps(i) # {} THEN "422"
  ELSE "proceed"

\* C9: a deprovision request is answered by the first matching rule: ids missing -> 400;
\* instance absent -> 410; stored ids differ -> 409; operation in progress -> 422; only
\* otherwise does the deprovision proceed (an operation is registered and 202 sent, or
\* the synchronous upstream delete begins).
C9_DeprovisionRuleOrder ==
  [][StepOf("deprovision") =>
       \A i \in InstanceIds, s \in ServiceIds \cup {Missing}, p \in PlanIds \cup {Missing},
          a \in Flags :
         DeprovisionRequest(i, s, p, a) =>
           LET rule == DeprovisionRule(i, s, p)
           IN  /\ rule = "400" => resp'.status = 400
               /\ rule = "410" => resp'.status = 410
               /\ rule = "409" => resp'.status = 409
               /\ rule = "422" => resp'.status = 422
               /\ rule # "proceed" => UNCHANGED <<storeVars, upstream, inflight>>
               /\ rule = "proceed" =>
                    /\ resp'.status \in {0, 202}
                    /\ \E f \in BagToSet(inflight') :
                         /\ f.verb = "deprovision" /\ f.inst = i
                         /\ CopiesIn(f, inflight') = CopiesIn(f, inflight) + 1
                    /\ resp'.status = 202 =>
                         /\ resp'.operation \in DOMAIN operations'
                         /\ operations'[resp'.operation].state = "in progress"]_vars

\* a deprovision with a different plan_id was just answered 409 while an operation of
\* the instance was in progress: the 409 rule comes before the 422 rule
C9_Witness ==
  /\ resp.verb = "deprovision" /\ resp.status = 409
  /\ resp.inst \in DOMAIN instances
  /\ InProgressOps(resp.inst) # {}

\* C10: deprovisioning an instanceId that is not stored, with both ids given, is answered
\* 410, issues no upstream call and leaves store and backend unchanged, so the same
\* request is answered 410 again however often it is repeated.
C10_DeprovisionAbsent ==
  [][StepOf("deprovision") =>
       \A i \in InstanceIds \ DOMAIN instances, s \in ServiceIds, p \in PlanIds,
          a \in Flags :
         DeprovisionRequest(i, s, p, a) =>
           /\ resp' = Response("deprovision", i, 410, "", NoOperation, "", "")
           /\ UNCHANGED <<storeVars, upstream, inflight>>
           /\ i \notin DOMAIN instances']_vars

\* an instance that was provisioned and deprovisioned is deprovisioned again: 410
C10_Witness ==
  /\ resp.verb = "deprovision" /\ resp.status = 410
  /\ resp.inst \notin DOMAIN instances
  /\ \E n \in 1..Len(upstream) :
       upstream[n].inst = resp.inst /\ upstream[n].account = "deleted"

\* a deprovision of instance i succeeds in this step: the synchronous route answers 200,
\* or the operation of an asynchronous one becomes 'succeeded'
DeprovisionSucceeds(i) ==
  \/ resp'.verb = "deprovision" /\ resp'.inst = i /\ resp'.status = 200
  \/ \E id \in DOMAIN operations :
       /\ operations[id].type = "deprovision" /\ operations[id].instanceId = i
       /\ operations[id].state = "in progress"
       /\ id \in DOMAIN operations' /\ operations'[id].state = "succeeded"

\* C11: when a deprovision of X succeeds, synchronously or by its operation becoming
\* 'succeeded', getBinding returns no binding created under X: every such binding is
\* gone after that step, and no binding is ever stored under an instance that is not.
C11_CascadeOnDeprovision ==
  /\ [][\A i \in InstanceIds :
          DeprovisionSucceeds(i) =>
            /\ \A b \in DOMAIN bindings : bindings[b].instanceId = i => b \notin DOMAIN bindings'
            /\ \A b \in BindingIds : getBinding(Store, b)'.instanceId # i]_vars
  /\ [](\A b \in DOMAIN bindings : bindings[b].instanceId \in DOMAIN instances)

\* the only instance ever provisioned was bound, then deprovisioned: its contact user
\* still lives upstream, its binding is gone
C11_Witness ==
  /\ resp.verb = "deprovision" /\ resp.status = 200
  /\ Len(upstream) = 1 /\ upstream[1].account = "deleted"
  /\ Len(upstream[1].users) = 1 /\ upstream[1].users[1].state = "live"
  /\ bindings = <<>>

\* deprovision flow f resumes in this step: one of its upstream delete calls returned
DeleteReturns(f) ==
  f.verb = "deprovision" /\ (DeleteServiceReturns(f) \/ DeleteAccountReturns(f))

\* the step ends the deprovision of flow f in success
DeleteSucceeds(f) ==
  /\ f.pc = "deleteAccount"
  /\ IF f.mode = "sync" THEN resp'.status = 200
     ELSE f.op \in DOMAIN operations' /\ operations'[f.op].state = "succeeded"

\* C12: a step in which an upstream delete call of a deprovision returns without
\* completing the deprovision leaves every instance record and every binding as it was;
\* unless the flow goes on to its second delete call, the call failed, and then the
\* synchronous route answers with the mapped status and description, while the
\* asynchronous job marks its operation 'failed' with the mapped description and the
\* pending flag of the instance is lowered.
C12_FailedDeprovisionKeepsState ==
  [][\A f \in Flows :
       (DeleteReturns(f) /\ ~DeleteSucceeds(f)) =>
         /\ UNCHANGED <<instances, bindings>>
         /\ \/ /\ f.pc = "deleteService"
               /\ inflight' = Replace(f, [f EXCEPT !.pc = "deleteAccount"])
               /\ UNCHANGED storeVars
            \/ /\ f.mode = "sync"
               /\ \E raw \in RawFailures :
                    resp' = Describe("deprovision", f.inst, mapError(raw).status,
                                     mapError(raw).description)
               /\ UNCHANGED storeVars
            \/ /\ f.mode = "async"
               /\ f.op \in DOMAIN operations'
               /\ operations'[f.op].state = "failed"
               /\ operations'[f.op].description \in
                    {mapError(raw).description : raw \in RawFailures}
               /\ ~hasPendingOperation(Store, f.inst)'
               /\ resp' = NoResp]_vars

\* an asynchronous deprovision of a bound instance failed: instance and binding are still
\* stored and the gate is open again
C12_Witness ==
  \E o \in DOMAIN operations, b \in DOMAIN bindings :
    /\ operations[o].type = "deprovision" /\ operations[o].state = "failed"
    /\ operations[o].instanceId \in DOMAIN instances
    /\ bindings[b].instanceId = operations[o].instanceId
    /\ operations[o].instanceId \notin pendingOperations

\* the mode provision chooses for a request that passed its gate
ProvisionBranch(a) ==
  IF AsyncAccepted(a) THEN "202" ELSE IF AsyncRequired(a) THEN "AsyncRequired" ELSE "sync"

\* the mode the step just taken chose for a request on instance i
ChosenMode(verb, i) ==
  IF resp'.verb = verb /\ resp'.inst = i /\ resp'.status = 202 THEN "202"
  ELSE IF resp'.verb = verb /\ resp'.inst = i /\ resp'.error = "AsyncRequired"
    THEN "AsyncRequired"
  ELSE IF resp' = NoResp /\ BagCardinality(inflight') = BagCardinality(inflight) + 1
    THEN "sync"
  ELSE "none"

\* C13: for every async setting of the broker and every accepts_incomplete flag, a
\* provision and a deprovision that passed the rules before the branching choose the same
\* mode: 202 with an operation, 422 AsyncRequired, or synchronous execution.
C13_SameBranching ==
  [][RequestStep =>
       \A i \in InstanceIds, s \in ServiceIds, p \in PlanIds, a \in Flags :
         /\ \A c \in Contexts, q \in ProvisionParameters :
              (ProvisionRequest(i, s, p, a, c, q)
                 /\ ProvisionRule(i, s, p, a) \in {"202", "AsyncRequired", "sync"})
                => ChosenMode("provision", i) = ProvisionBranch(a)
         /\ (DeprovisionRequest(i, s, p, a) /\ DeprovisionRule(i, s, p) = "proceed")
              => ChosenMode("deprovision", i) = ProvisionBranch(a)]_vars

\* the steps of the PATCH held by flow f after its upstream plan change returned
PatchResumes(f) == f.verb = "update" /\ UpdatePlanReturns(f)

\* C14: a PATCH that asks for another plan writes nothing before its upstream plan change
\* returned, and if it does not end in 200 it has written nothing at all: the store,
\* planId, context, parameters and updatedAt of the instance included, is as it was, and
\* the answer carries the mapped status and description.
C14_PlanChangeBeforeWrite ==
  /\ [][StepOf("update") =>
          \A i \in DOMAIN instances, p \in PlanIds, c \in Contexts, q \in MergeParameters :
            (PatchRequest(i, p, c, q) /\ p # instances[i].planId) =>
              /\ UNCHANGED <<storeVars, upstream>>
              /\ resp'.status # 200]_vars
  /\ [][\A f \in Flows :
          (PatchResumes(f) /\ resp'.status # 200) =>
            /\ UNCHANGED <<storeVars, upstream>>
            /\ \E raw \in RawFailures :
                 resp' = Describe("update", f.inst, mapError(raw).status,
                                  mapError(raw).description)]_vars

\* the plan change of a PATCH failed upstream after time had passed: the PATCH was answered
\* with the mapped status and the instance still has its plan and its first updatedAt
C14_Witness ==
  /\ resp.verb = "update" /\ resp.status = 410
  /\ resp.inst \in DOMAIN instances
  /\ instances[resp.inst].planId = "standard"
  /\ instances[resp.inst].updatedAt < now

C16_KeywiseMerge ==
  /\ [][RequestStep =>
          \A i \in DOMAIN instances, p \in PlanIds \cup {Missing}, c \in Contexts,
             q \in MergeParameters :
            (PatchRequest(i, p, c, q) /\ resp'.status = 200) =>
              \A k \in ParamKeys :
                q[k] = Missing => instances'[i].parameters[k] = instances[i].parameters[k]]_vars
  /\ [][\A f \in Flows :
          (PatchResumes(f) /\ resp'.status = 200) =>
            \A k \in ParamKeys :
              f.params[k] = Missing =>
                instances'[f.inst].parameters[k] = instances[f.inst].parameters[k]]_vars

\* the rule that answers a bind request, first match first
BindRule(i, b, s, p, e) ==
  IF s = Missing \/ p = Missing THEN "400"
  ELSE IF i \notin DOMAIN instances THEN "404"
  ELSE IF b \in DOMAIN bindings THEN
    IF bindings[b].serviceId = s /\ bindings[b].planId = p THEN "200" ELSE "409"
  ELSE IF e = Missing THEN "RequiresApp"
  ELSE "create"

\* C17: a bind request is answered by the first matching rule: ids missing -> 400; owning
\* instance not stored -> 404; binding id stored with equal ids -> 200 with the stored
\* credentials, with different ones -> 409; no email -> 422 RequiresApp; only otherwise
\* is the upstream create-contact-user call started, with the account of the instance and
\* the email given, and the backend gains a contact user only when such a call returns.
C17_BindRuleOrder ==
  /\ [][StepOf("bind") =>
          \A i \in InstanceIds, b \in BindingIds, s \in ServiceIds \cup {Missing},
             p \in PlanIds \cup {Missing}, e \in Emails \cup {Missing} :
            BindRequest(i, b, s, p, e) =>
              LET rule == BindRule(i, b, s, p, e)
              IN  /\ rule = "400" => resp'.status = 400
                  /\ rule = "404" => resp'.status = 404
                  /\ rule = "200" =>
                       /\ resp'.status = 200
                       /\ resp'.credentials = bindings[b].credentials
                  /\ rule = "409" => resp'.status = 409
                  /\ rule = "RequiresApp" =>
                       resp'.status = 422 /\ resp'.error = "RequiresApp"
                  /\ rule # "create" => UNCHANGED <<storeVars, upstream, inflight>>
                  /\ rule = "create" =>
                       /\ resp' = NoResp
                       /\ UNCHANGED <<storeVars, upstream>>
                       /\ BagCardinality(inflight') = BagCardinality(inflight) + 1
                       /\ \E f \in BagToSet(inflight') :
                            /\ CopiesIn(f, inflight') = CopiesIn(f, inflight) + 1
                            /\ f.verb = "bind" /\ f.pc = "createContactUser"
                            /\ f.inst = i /\ f.bid = b /\ f.email = e
                            /\ f.snap = instances[i]]_vars
  /\ [][\A n \in 1..Len(upstream) :
          upstream'[n].users # upstream[n].users =>
            \E f \in Flows : f.pc \in {"createContactUser", "deleteContactUser"}]_vars

\* a bind for a binding id that is stored was just answered 200 with the stored
\* credentials
C17_Witness ==
  /\ resp.verb = "bind" /\ resp.status = 200
  /\ \E b \in DOMAIN bindings :
       /\ resp.credentials = bindings[b].credentials
       /\ resp.credentials.email \in Emails

\* the bind held by flow f ends in 201 in this step
BindSucceeds(f) ==
  f.verb = "bind" /\ CreateContactUserReturns(f) /\ resp'.status = 201

C19_FailureKeepsBindings ==
  /\ [][\A f \in Flows :
          (f.verb = "bind" /\ CreateContactUserReturns(f) /\ resp'.status # 201) =>
            /\ UNCHANGED storeVars
            /\ \/ \E raw \in RawFailures :
                    /\ resp' = Describe("bind", f.inst, mapError(raw).status,
                                        mapError(raw).description)
                    /\ UNCHANGED upstream
               \/ resp'.status = 500]_vars
  /\ [][\A f \in Flows :
          (f.verb = "unbind" /\ DeleteContactUserReturns(f) /\ resp'.status # 200) =>
            /\ UNCHANGED <<storeVars, upstream>>
            /\ \E raw \in RawFailures :
                 resp' = Describe("unbind", f.inst, mapError(raw).status,
                                  mapError(raw).description)]_vars

\* an unbind just failed upstream and its binding is still stored
C19_Witness ==
  /\ resp.verb = "unbind"
  /\ resp.description = "Resource not found in Radware backend"
  /\ bindings # <<>>

\* the rule that answers an unbind request, first match first
UnbindRule(b, s, p) ==
  IF s = Missing \/ p = Missing THEN "400"
  ELSE IF b \notin DOMAIN bindings THEN "410"
  ELSE IF bindings[b].serviceId # s \/ bindings[b].planId # p THEN "409"
  ELSE "delete"

\* C20: an unbind request is answered by the first matching rule: ids missing -> 400;
\* binding not stored -> 410; stored ids differ -> 409; otherwise the upstream
\* delete-contact-user call is started for the stored user id, and only when it has
\* returned is the binding deleted and 200 sent with an empty body.
C20_UnbindRuleOrder ==
  /\ [][StepOf("unbind") =>
          \A i \in InstanceIds, b \in BindingIds, s \in ServiceIds \cup {Missing},
             p \in PlanIds \cup {Missing} :
            UnbindRequest(i, b, s, p) =>
              LET rule == UnbindRule(b, s, p)
              IN  /\ rule = "400" => resp'.status = 400
                  /\ rule = "410" => resp'.status = 410
                  /\ rule = "409" => resp'.status = 409
                  /\ rule # "delete" => UNCHANGED <<storeVars, upstream, inflight>>
                  /\ rule = "delete" =>
                       /\ resp' = NoResp
                       /\ UNCHANGED <<storeVars, upstream>>
                       /\ BagCardinality(inflight') = BagCardinality(inflight) + 1
                       /\ \E f \in BagToSet(inflight') :
                            /\ CopiesIn(f, inflight') = CopiesIn(f, inflight) + 1
                            /\ f.verb = "unbind" /\ f.pc = "deleteContactUser"
                            /\ f.bid = b /\ f.arg = bindings[b].radwareUserId]_vars
  /\ [][\A f \in Flows :
          (f.verb = "unbind" /\ DeleteContactUserReturns(f) /\ resp'.status = 200) =>
            /\ upstream'[f.arg.acct].users[f.arg.n].state = "deleted"
            /\ f.bid \notin DOMAIN bindings'
            /\ resp' = Describe("unbind", f.inst, 200, "")]_vars
  /\ [][\A b \in DOMAIN bindings :
          b \notin DOMAIN bindings' =>
            \/ /\ resp'.verb = "unbind" /\ resp'.status = 200
               /\ \E f \in Flows : f.verb = "unbind" /\ f.bid = b
            \/ bindings[b].instanceId \notin DOMAIN instances']_vars

\* an unbind was just answered 200: the contact user is deleted upstream, the binding gone
C20_Witness ==
  /\ resp.verb = "unbind" /\ resp.status = 200 /\ resp.description = ""
  /\ bindings = <<>>
  /\ \E n \in 1..Len(upstream) :
       Len(upstream[n].users) = 1 /\ upstream[n].users[1].state = "deleted"

\* the three Operation states
OperationStates == {"in progress", "succeeded", "failed"}

\* C21: last_operation answers 400 when the operation query parameter is absent, 404 when
\* no operation is stored under the id given, and otherwise 200 with the state and the
\* description of the stored operation, that state being one of 'in progress',
\* 'succeeded' and 'failed'; it changes nothing.
C21_LastOperation ==
  /\ [][StepOf("last_operation") =>
          \A i \in InstanceIds, o \in OperationIds \cup {NoOperation} :
            LastOperationRequest(i, o) =>
              /\ o = NoOperation => resp'.status = 400
              /\ (o # NoOperation /\ o \notin DOMAIN operations) => resp'.status = 404
              /\ o \in DOMAIN operations =>
                   /\ resp'.status = 200
                   /\ resp'.state = operations[o].state
                   /\ resp'.description = operations[o].description
                   /\ resp'.state \in OperationStates
              /\ UNCHANGED <<storeVars, upstream, inflight>>]_vars
  /\ [](resp.verb = "last_operation" =>
          /\ resp.status \in {200, 400, 404}
          /\ resp.status = 200 <=> resp.state \in OperationStates)

\* a poll was just answered 200 with the state 'failed' of a stored operation
C21_Witness ==
  /\ resp.verb = "last_operation" /\ resp.status = 200 /\ resp.state = "failed"
  /\ \E o \in DOMAIN operations :
       operations[o].state = "failed" /\ operations[o].description = resp.description

\* the detached deprovision job held by flow f ends in this step: an upstream delete call
\* returned and the job does not go on to its second call
DeprovisionJobEnds(f) ==
  /\ f.mode = "async" /\ DeleteReturns(f)
  /\ ~(f.pc = "deleteService" /\ inflight' = Replace(f, [f EXCEPT !.pc = "deleteAccount"]))

\* C22: when the job of an async deprovision ends, a poll with its operation id is
\* answered 200 with a terminal state, 'succeeded' exactly when the job deleted upstream
\* and then the instance is gone; no step, the instance delete of the job included,
\* removes an operation that is in progress, and deleteInstance applied to any reachable
\* store keeps every such operation as it is.
C22_OperationSurvivesDelete ==
  /\ [][\A f \in Flows :
          DeprovisionJobEnds(f) =>
            LET answer == LastOperationResponse(Store, f.inst, f.op)'
            IN  /\ answer.status = 200
                /\ answer.state \in {"succeeded", "failed"}
                /\ answer.state = "succeeded" => f.inst \notin DOMAIN instances'
                /\ answer.state = "failed" => UNCHANGED <<instances, upstream>>]_vars
  /\ [][\A o \in DOMAIN operations :
          IsInProgress(operations[o]) => o \in DOMAIN operations']_vars
  /\ [](\A i \in InstanceIds, o \in DOMAIN operations :
          IsInProgress(operations[o]) =>
            /\ o \in DOMAIN deleteInstance(Store, i).operations
            /\ deleteInstance(Store, i).operations[o] = operations[o])

\* the operation of an async deprovision was just polled after its job deleted the
\* instance: 200 'succeeded'
C22_Witness ==
  /\ resp.verb = "last_operation" /\ resp.status = 200 /\ resp.state = "succeeded"
  /\ resp.description = "Service instance deprovisioned successfully"
  /\ resp.inst \notin DOMAIN instances
  /\ \E o \in DOMAIN operations :
       /\ operations[o].type = "deprovision" /\ operations[o].state = "succeeded"
       /\ operations[o].instanceId = resp.inst

\* the status the failure mapping gives an upstream outcome
MappedStatus(raw) ==
  IF raw = 0 THEN 502
  ELSE IF raw = 400 THEN 400
  ELSE IF raw = 401 \/ raw = 403 THEN 502
  ELSE IF raw = 404 THEN 410
  ELSE IF raw = 409 THEN 409
  ELSE IF raw = 422 THEN 422
  ELSE 502

\* C23: the failure mapping gives every upstream outcome a status: no response -> 502,
\* 400 -> 400, 401 and 403 -> 502, 404 -> 410, 409 -> 409, 422 -> 422, any other status
\* -> 502; the error a call throws is the mapping of its last rejection, so its status is
\* one of 400, 409, 410, 422, 502 and never 401, 403 or 404.
C23_FailureMapping ==
  /\ \A raw \in RawOutcomes :
       /\ mapError(raw).status = MappedStatus(raw)
       /\ mapError(raw).status \in {400, 409, 410, 422, 502}
  /\ \A c \in Flows :
       c.pc = "thrown" =>
         /\ c.error.status = MappedStatus(c.raw)
         /\ c.error.status \in {400, 409, 410, 422, 502}
         /\ c.error.status \notin {401, 403, 404}

\* a call was rejected with 404 and threw an error of status 410
C23_Witness ==
  \E c \in Flows : c.pc = "thrown" /\ c.raw = 404 /\ c.error.status = 410

\* the attempts a call has made: one per retryCount passed, and the current one once it
\* was answered
Attempts(c) == c.retryCount + (IF c.pc = "client" THEN 0 ELSE 1)

\* C24: a call sleeps for a retry only after no response, a 5xx, 408 or 429; it makes at
\* most retries+1 attempts, retries being the configured number, 0 included; it throws the
\* mapping of its last rejection, after a retryable rejection only once retries+1
\* attempts are made.
C24_BoundedRetries ==
  \A c \in Flows :
    /\ Attempts(c) <= c.configured + 1
    /\ c.pc = "sleep" =>
         (c.raw = 0 \/ c.raw \in 500..MaxStatus \/ c.raw = 408 \/ c.raw = 429)
    /\ c.pc = "thrown" =>
         /\ c.error = mapError(c.raw)
         /\ (c.raw = 0 \/ c.raw \in 500..MaxStatus \/ c.raw = 408 \/ c.raw = 429)
              => Attempts(c) = c.configured + 1

\* the two answers of the header validation
HeaderTexts ==
  {"X-Broker-API-Version header is required",
   "Requires X-Broker-API-Version: 2.12 or 2.13"}

\* a request with header h for the route given takes this step, and h is not accepted
Refused(h, request) == h \notin {"2.12", "2.13"} /\ request

StoredInProgress(i) ==
  {o \in DOMAIN operations :
     operations[o].instanceId = i /\ operations[o].state = "in progress"}

Overwrites ==
  \E o \in DOMAIN operations, st \in {"succeeded", "failed"} :
    SetOperationCall(o.inst, o, st)

\* the step is an updateOperation that moves an operation to 'in progress'
Reopens == \E o \in StoreOperationIds : UpdateOperationCall(o, "in progress")

StoredTerminal(i) ==
  {o \in DOMAIN operations :
     operations[o].instanceId = i /\ operations[o].state \in {"succeeded", "failed"}}

\* C27: deleteInstance(i) on a stored instance returns true and removes the instance,
\* every binding whose instanceId is i and exactly the succeeded and failed operations of
\* i; each in-progress operation of i is kept as it is, the pending flag of i stays set
\* exactly when it was set and one remains, and instances, bindings, operations and flags
\* of other instances are as before. On an absent instance it returns false and changes
\* nothing.
C27_DeleteInstanceFrame ==
  [][resp'.verb = "deleteInstance" =>
       \A i \in StoreIds :
         DeleteInstanceCall(i) =>
           IF i \in DOMAIN instances THEN
             /\ resp'.description = "true"
             /\ instances' = MapDelete(instances, i)
             /\ DOMAIN bindings' = {b \in DOMAIN bindings : bindings[b].instanceId # i}
             /\ \A b \in DOMAIN bindings' : bindings'[b] = bindings[b]
             /\ DOMAIN operations' = (DOMAIN operations) \ StoredTerminal(i)
             /\ \A o \in DOMAIN operations' : operations'[o] = operations[o]
             /\ StoredInProgress(i)' = StoredInProgress(i)
             /\ hasPendingOperation(Store, i)' <=>
                  (hasPendingOperation(Store, i) /\ StoredInProgress(i)' # {})
             /\ \A j \in StoreIds \ {i} :
                  /\ hasPendingOperation(Store, j)' <=> hasPendingOperation(Store, j)
                  /\ listOperationsByInstance(Store, j)' = listOperationsByInstance(Store, j)
           ELSE
             /\ resp'.description = "false"
             /\ UNCHANGED storeVars]_vars

\* deleteInstance just removed an instance that had a finished and a running operation
\* while another instance owns a binding and an operation: the running one is left with
\* the flag, the other instance keeps what it had
C27_Witness ==
  /\ resp.verb = "deleteInstance" /\ resp.description = "true"
  /\ resp.inst = "i1" /\ "i1" \notin DOMAIN instances
  /\ DOMAIN operations =
       {OperationId("deprovision", "i1", 0), OperationId("provision", "i2", 0)}
  /\ operations[OperationId("deprovision", "i1", 0)].state = "in progress"
  /\ "i1" \in pendingOperations
  /\ "i2" \in DOMAIN instances
  /\ \E b \in DOMAIN bindings : bindings[b].instanceId = "i2"

\* C28: updateInstance(id, { parameters }) with a partial parameters object leaves every
\* stored parameter key the partial does not name as it was.
C28_StoreKeywiseMerge ==
  [][resp'.verb = "updateInstance" =>
       \A i \in DOMAIN instances, q \in Partials :
         UpdateInstanceCall(i, q) =>
           \A k \in ParamKeys :
             q[k] = Missing => instances'[i].parameters[k] = instances[i].parameters[k]]_vars

\* C29: every stored binding's instanceId names a stored instance. A binding is stored
\* only in a step that starts with its instance stored, and a bind that resumes after its
\* instance was deprovisioned stores nothing and does not answer 201: createBinding
\* throws "Instance not found for binding".
C29_BindingsNameInstances ==
  /\ [](\A b \in BindingIds :
          getBinding(Store, b) # NoBinding =>
            getInstance(Store, getBinding(Store, b).instanceId) # NoInstance)
  /\ [][\A b \in BindingIds :
          (b \notin DOMAIN bindings /\ b \in DOMAIN bindings') =>
            /\ bindings'[b].instanceId \in DOMAIN instances
            /\ bindings'[b].instanceId \in DOMAIN instances']_vars
  /\ [][\A f \in Flows :
          (f.verb = "bind" /\ CreateContactUserReturns(f)
             /\ f.inst \notin DOMAIN instances) =>
            /\ bindings' = bindings
            /\ resp'.status # 201
            /\ upstream' # upstream =>
                 resp' = Describe("bind", f.inst, 500, "Instance not found for binding")]_vars

\* a bind whose instance was deprovisioned while it awaited the backend just ended in
\* 500: the contact user exists upstream, no binding was stored
C29_Witness ==
  /\ resp = Describe("bind", "i1", 500, "Instance not found for binding")
  /\ instances = <<>> /\ bindings = <<>>
  /\ \E a \in 1..Len(upstream) : Len(upstream[a].users) > 0

\* C30: every mutating store operation takes effect as one step. The step that removes
\* an instance document leaves no binding of that instance and no finished operation of
\* it behind, and no reader finds bindings of an instance that is not stored.
C30_AtomicMutations ==
  /\ [](\A i \in StoreIds :
          resp = StoreReturn("getBindingsByInstance", i, "true") => i \in DOMAIN instances)
  /\ [][\A i \in StoreIds :
          (i \in DOMAIN instances /\ i \notin DOMAIN instances') =>
            /\ \A b \in DOMAIN bindings' : bindings'[b].instanceId # i
            /\ \A id \in DOMAIN operations' :
                 operations'[id].instanceId = i => ~IsTerminal(operations'[id])]_vars

\* the upstream service and account a deprovision flow was started for are deleted
ServiceDeletedFor(f, up) == up[f.snap.radwareServiceId.n].service = "deleted"
AccountDeletedFor(f, up) == up[f.snap.accountId.n].account = "deleted"

\* C31: a deprovision, synchronous or detached, awaits its account delete only once the
\* service delete succeeded, and no account is deleted before its service; the step of a
\* deprovision that removes the instance record is the one in which its account delete
\* succeeds, the service delete having succeeded before; the operation of a detached
\* deprovision becomes 'succeeded' only in a step after which the record is gone.
C31_DeprovisionOrder ==
  /\ [](\A f \in Flows :
          (f.verb = "deprovision" /\ f.pc = "deleteAccount") => ServiceDeletedFor(f, upstream))
  /\ [][\A n \in 1..Len(upstream) :
          (upstream[n].account = "live" /\ upstream'[n].account = "deleted") =>
            upstream[n].service = "deleted"]_vars
  /\ [][\A f \in Flows :
          (f.verb = "deprovision" /\ DeleteReturns(f)
             /\ f.inst \in DOMAIN instances /\ f.inst \notin DOMAIN instances') =>
            /\ f.pc = "deleteAccount"
            /\ ServiceDeletedFor(f, upstream) /\ AccountDeletedFor(f, upstream')]_vars
  /\ [][\A f \in Flows :
          (f.verb = "deprovision" /\ f.mode = "async" /\ DeleteReturns(f)
             /\ f.op \in DOMAIN operations /\ f.op \in DOMAIN operations'
             /\ operations[f.op].state = "in progress"
             /\ operations'[f.op].state = "succeeded") =>
            /\ f.inst \notin DOMAIN instances'
            /\ ServiceDeletedFor(f, upstream') /\ AccountDeletedFor(f, upstream')]_vars

\* a detached deprovision ended in 'succeeded': service and account are deleted upstream
\* and the record is gone
C31_Witness ==
  /\ instances = <<>>
  /\ \E id \in DOMAIN operations :
       operations[id].type = "deprovision" /\ operations[id].state = "succeeded"
  /\ Len(upstream) = 1
  /\ upstream[1].service = "deleted" /\ upstream[1].account = "deleted"

\* a step of the detached job f: its timer fires or an upstream call of it returns
DetachedStep(f) ==
  /\ f.mode = "async"
  /\ \/ JobStart(f)
     \/ CreateAccountReturns(f)
     \/ CreateServiceReturns(f)
     \/ DeleteServiceReturns(f)
     \/ DeleteAccountReturns(f)

\* C32: the step that answers 202 registers the operation 'in progress', schedules the
\* job and issues no upstream call: the job is still waiting for its timer, the backend
\* is untouched, and the answer is fixed by the request and the clock alone. Every later
\* step of the job answers nothing, and a job leaves its timer wait only by JobStart.
C32_AcceptedBeforeJob ==
  /\ [][resp'.status = 202 =>
          /\ resp'.verb \in {"provision", "deprovision"}
          /\ resp' = Response(resp'.verb, resp'.inst, 202, "",
                              OperationId(resp'.verb, resp'.inst, now), "", "")
          /\ resp'.operation \in DOMAIN operations'
          /\ operations'[resp'.operation].state = "in progress"
          /\ operations'[resp'.operation].type = resp'.verb
          /\ upstream' = upstream
          /\ \E f \in BagToSet(inflight') :
               /\ f.op = resp'.operation /\ f.mode = "async" /\ f.pc = "scheduled"
               /\ inflight'[f] = 1
               /\ inflight' = Add(f)]_vars
  /\ [][\A f \in Flows : DetachedStep(f) => resp' = NoResp]_vars
  /\ [][\A f \in Flows :
          (f.pc = "scheduled" /\ (f \notin BagToSet(inflight') \/ inflight'[f] < inflight[f]))
            => (JobStart(f) /\ upstream' = upstream)]_vars

\* a deprovision was just accepted: its operation is in progress, its job waits for its
\* timer, the backend still holds the service
C32_Witness ==
  /\ resp.status = 202 /\ resp.verb = "deprovision"
  /\ operations[resp.operation].state = "in progress"
  /\ \E f \in Flows : f.op = resp.operation /\ f.pc = "scheduled"
  /\ Len(upstream) = 1 /\ upstream[1].service = "live"

\* C33: an in-progress provision operation of X implies that X is not stored, and an
\* in-progress deprovision operation of X implies that X is stored.
C33_OperationMatchesRecord ==
  \A id \in DOMAIN operations :
    operations[id].state = "in progress" =>
      /\ operations[id].type = "provision" => operations[id].instanceId \notin DOMAIN instances
      /\ operations[id].type = "deprovision" => operations[id].instanceId \in DOMAIN instances

\* C34: an operation whose state is 'succeeded' or 'failed' keeps its state and its
\* description in every step after which its record still exists.
C34_TerminalAbsorbing ==
  [][\A id \in DOMAIN operations :
       (IsTerminal(operations[id]) /\ id \in DOMAIN operations') =>
         /\ operations'[id].state = operations[id].state
         /\ operations'[id].description = operations[id].description]_vars

\* C35: a deprovision answered 410 leaves no record of the instance it named, and an
\* unbind answered 410 leaves no record of the binding it named.
C35_GoneMeansAbsent ==
  /\ [][(resp'.verb = "deprovision" /\ resp'.status = 410) =>
          resp'.inst \notin DOMAIN instances']_vars
  /\ [][resp'.verb = "unbind" /\ resp'.status = 410 =>
          /\ \A f \in Flows :
               (f.verb = "unbind" /\ DeleteContactUserReturns(f)) =>
                 f.bid \notin DOMAIN bindings'
          /\ \A i \in InstanceIds, b \in BindingIds, s \in ServiceIds, p \in PlanIds :
               UnbindRequest(i, b, s, p) => b \notin DOMAIN bindings']_vars

\* a synchronous broker serving two tenants, one request at a time: each tenant
\* provisions its instance and sends binds and unbinds under an instance id of StoreIds
TenantNext ==
  \/ \E i \in StoreIds :
       Quiet /\ ProvisionRequest(i, "svc", "standard", FALSE, Missing, EmptyParams)
  \/ \E i \in StoreIds, b \in BindingIds, e \in Emails :
       Quiet /\ BindRequest(i, b, "svc", "standard", e)
  \/ \E i \in StoreIds, b \in BindingIds :
       Quiet /\ UnbindRequest(i, b, "svc", "standard")
  \/ AccountCreated
  \/ ServiceCreated
  \/ ContactUserCreated
  \/ ContactUserDeleted

TenantSpec == SyncInit /\ [][TenantNext]_vars

\* C36: the idempotent bind answer (200 with stored credentials) is produced only from
\* a binding whose stored instanceId is the instance id of the request path, and an
\* unbind deletes only a binding whose stored instanceId is the one of its path.
C36_BindingOwnedByPath ==
  /\ [][\A i \in StoreIds, b \in BindingIds, e \in Emails :
          (BindRequest(i, b, "svc", "standard", e) /\ resp'.status = 200) =>
            bindings[b].instanceId = i]_vars
  /\ [][\A f \in Flows :
          (/\ f.verb = "unbind"
           /\ DeleteContactUserReturns(f)
           /\ f.bid \in DOMAIN bindings
           /\ f.bid \notin DOMAIN bindings') =>
            bindings[f.bid].instanceId = f.inst]_vars

\* C37: every stored binding carries, as credentials.accountId, the upstream accountId
\* of the instance currently stored under the binding's instanceId.
C37_BindingAccountCurrent ==
  \A b \in DOMAIN bindings :
    bindings[b].instanceId \in DOMAIN instances =>
      bindings[b].credentials.accountId = instances[bindings[b].instanceId].accountId

\* the outage of the upstream is over once the clock reads MaxTime
Healthy == now = MaxTime

\* a synchronous broker whose platform provisions an instance and re-issues its
\* deprovision, in front of an upstream that answers a DELETE truthfully: 404 for a
\* resource it already deleted and, once its outage is over, success for one it holds
RetryNext ==
  \/ \E i \in InstanceIds :
       ProvisionRequest(i, "svc", "standard", FALSE, Missing, EmptyParams)
  \/ \E i \in InstanceIds : DeprovisionRequest(i, "svc", "standard", FALSE)
  \/ AccountCreated
  \/ ServiceCreated
  \/ \E f \in Flows :
       /\ DeleteServiceReturns(f)
       /\ ServiceDeletedFor(f, upstream) => resp'.status = 410
       /\ (Healthy /\ ~ServiceDeletedFor(f, upstream)) => resp' = NoResp
  \/ \E f \in Flows :
       /\ DeleteAccountReturns(f)
       /\ AccountDeletedFor(f, upstream) => resp'.status = 410
       /\ (Healthy /\ ~AccountDeletedFor(f, upstream)) => resp'.status = 200
  \/ Tick

\* the platform keeps re-issuing the deprovision and every upstream call is answered
RetrySpec ==
  /\ SyncInit
  /\ [][RetryNext]_vars
  /\ WF_vars(\E i \in InstanceIds : DeprovisionRequest(i, "svc", "standard", FALSE))
  /\ WF_vars(ServiceDeleted)
  /\ WF_vars(AccountDeleted)

\* a deprovision of the instance on account a failed between its two upstream deletes
HalfDeleted(a) ==
  /\ a \in 1..Len(upstream)
  /\ upstream[a].service = "deleted"
  /\ upstream[a].account = "live"
  /\ \E i \in DOMAIN instances : instances[i].accountId = AccountId(a)
  /\ Quiet

\* the account is deleted upstream and no stored instance names it
Cleaned(a) ==
  /\ a \in 1..Len(upstream)
  /\ upstream[a].account = "deleted"
  /\ \A i \in DOMAIN instances : instances[i].accountId # AccountId(a)

\* C38: once a deprovision failed after the upstream service was deleted and before the
\* account was, re-issuing it against a healthy upstream eventually deletes the
\* upstream account and the instance record.
C38_DeprovisionRetrySafe ==
  \A a \in 1..MaxAccounts : (Healthy /\ HalfDeleted(a)) ~> Cleaned(a)

\* C40: when no request or job is in flight, every upstream account the broker created
\* and has not deleted is the accountId of a stored instance.
C40_NoOrphanAccount ==
  Quiet =>
    \A a \in 1..Len(upstream) :
      upstream[a].account = "live" =>
        \E i \in DOMAIN instances : instances[i].accountId = AccountId(a)

\* C39: when no request or job is in flight, the planId of every stored instance is the
\* plan most recently applied upstream to the instance's live upstream service.
C39_PlanMatchesUpstream ==
  Quiet =>
    \A i \in DOMAIN instances :
      LET serviceId == instances[i].radwareServiceId
      IN  (serviceId.kind = "service" /\ upstream[serviceId.n].service = "live") =>
            instances[i].planId = upstream[serviceId.n].plan
====
